---------------------------- MODULE Spec2Model ----------------------------
(***************************************************************************)
(* A model of the toy-parser pipeline: Lexer (hand-written and table       *)
(* driven) -> Parser (precedence climbing) -> Interpreter (tree walking).  *)
(*                                                                         *)
(* Characters are one-character strings, JavaScript strings are sequences  *)
(* of characters, and array indices are zero-based as in the source        *)
(* (element i of an array a is a[i + 1] here).                             *)
(***************************************************************************)
EXTENDS Integers, Naturals, Sequences, FiniteSets

VARIABLES
    lexerKind,     \* which Lexer class is running: "hardcoded" or "table"
    input,         \* Lexer.input
    position,      \* Lexer.position
    tokens,        \* Lexer.tokens, then Parser.tokens
    currentIndex,  \* Parser.currentIndex
    statements,    \* the array parse() builds, then Interpreter.statements
    stmtIndex,     \* how many statements interpret()'s for loop has executed
    variables,     \* Interpreter.variables, the VariableStore
    output,        \* the lines written with console.log
    errors,        \* the lines written with console.error by ErrorMessage.error
    pc             \* the running stage: "lex", "parse", "interpret", "done", "crashed"

vars == <<lexerKind, input, position, tokens, currentIndex, statements,
          stmtIndex, variables, output, errors, pc>>

-----------------------------------------------------------------------------
(* Bounds of the model *)

\* the longest operator chain  atom (op atom)^MaxOps  tried on the parser
MaxOps == 3
\* the longest arbitrary token array tried on the parser
MaxTokens == 3
\* the longest statement array tried on the interpreter
MaxStmts == 3
\* the longest generated character input tried on the lexers
MaxInput == 3
\* console.error lines kept of a loop that reports the same error forever
MaxErrors == 3

-----------------------------------------------------------------------------
(* JavaScript values: string | number | undefined *)

\* a number with d = 1 is the integer n; d = 0 encodes the non-finite
\* numbers: Infinity (n = 1), -Infinity (n = -1) and NaN (n = 0); d = 2 marks
\* a Double, a finite number that is not a small integer
Num(n) == [t |-> "number", n |-> n, d |-> 1, s |-> <<>>]
Frac(n, d) == [t |-> "number", n |-> n, d |-> d, s |-> <<>>]
Str(s) == [t |-> "string", n |-> 0, d |-> 1, s |-> s]
Undefined == [t |-> "undefined", n |-> 0, d |-> 1, s |-> <<>>]

typeof(v) == v.t

\* the test `result !== undefined`
TruthyDefined(v) == v.t # "undefined"

\* no test of the result at all
TruthyAlways(v) == TRUE

\* JavaScript truthiness, as tested by `if (result)`
Truthy(v) ==
    CASE v.t = "undefined" -> FALSE
      [] v.t = "string" -> v.s # <<>>
      [] OTHER -> v.n # 0


-----------------------------------------------------------------------------
(* ErrorMessage *)

\* one console.error line: `${this.constructor.name}: ${message}`; the message
\* is kept as its fixed text (kind), the value interpolated into it (arg) and
\* the index interpolated into it (-1 when the message has none)
Err(origin, kind, arg, index) ==
    [origin |-> origin, kind |-> kind, arg |-> arg, index |-> index]

\* ErrorMessage.error: writes the line with console.error and returns; the
\* `throw new Error(errorMessage)` of the source is commented out
error(log, line) == Append(log, line)

-----------------------------------------------------------------------------
(* Tokens and AST nodes *)

Token(type, value) == [type |-> type, value |-> value]

Literal(v) == [type |-> "Literal", value |-> v]
VariableReference(name) == [type |-> "VariableReference", varname |-> name]
BinaryExpression(l, op, r) ==
    [type |-> "BinaryExpression", left |-> l, operator |-> op, right |-> r]
\* the `undefined` an expression parser returns after an error
NoExpression == [type |-> "undefined"]

AssignmentStatement(name, e) ==
    [type |-> "AssignmentStatement", varname |-> name, value |-> e]
PrintStatement(es) == [type |-> "PrintStatement", expressions |-> es]
UnsupportedStatement(v) == [type |-> "Unsupported", value |-> v]

-----------------------------------------------------------------------------
(* Parser *)

\* what an expression-parsing method leaves behind: the node it returns, the
\* new currentIndex, the console.error lines it wrote, and whether it threw
\* (a TypeError from reading `.type` of the undefined that consume() returns
\* past the end of the array)
ParseResult(node, idx, errs, crash) ==
    [node |-> node, idx |-> idx, errs |-> errs, crash |-> crash]

peekNext(toks, idx) ==
    IF idx + 1 < Len(toks)
    THEN toks[idx + 2]
    ELSE Token("EOL", Str(<<"E", "O", "F">>))

PrecMutantFlat(tokenType) ==
    CASE tokenType \in {"PLUS", "MINUS", "MULTIPLY", "DIVISION"} -> 1
      [] OTHER -> 0

PrecedenceWithEol(tokenType) ==
    CASE tokenType \in {"PLUS", "MINUS", "EOL"} -> 1
      [] tokenType \in {"MULTIPLY", "DIVISION"} -> 2
      [] OTHER -> 0

getOperatorPrecedence(tokenType) ==
    CASE tokenType \in {"PLUS", "MINUS"} -> 1
      [] tokenType \in {"MULTIPLY", "DIVISION"} -> 2
      [] OTHER -> 0

parseAtom(toks, idx) ==
    IF idx >= Len(toks)
    THEN ParseResult(NoExpression, idx + 1, <<>>, TRUE)
    ELSE LET token == toks[idx + 1] IN
         IF token.type = "VARIABLE"
         THEN ParseResult(VariableReference(token.value), idx + 1, <<>>, FALSE)
         ELSE IF token.type \in {"STRING", "INTEGER"}
         THEN ParseResult(Literal(token.value), idx + 1, <<>>, FALSE)
         ELSE ParseResult(NoExpression, idx + 1,
                          error(<<>>, Err("Parser", "unexpected token", token.value, -1)),
                          FALSE)

RECURSIVE parseExpression(_, _, _)
RECURSIVE BinaryLoop(_, _, _, _, _)

StopsBelow(operatorPrecedence, precedence) == operatorPrecedence < precedence

\* `if (operatorPrecedence <= precedence) break`
Stops(operatorPrecedence, precedence) == operatorPrecedence <= precedence

\* the while loop of parseBinaryExpression, entered with `left` parsed
BinaryLoop(toks, left, idx, errs, precedence) ==
    IF ~(left # NoExpression /\ idx < Len(toks))
    THEN ParseResult(left, idx, errs, FALSE)
    ELSE LET token == toks[idx + 1]
             operatorPrecedence == getOperatorPrecedence(token.type)
         IN  IF Stops(operatorPrecedence, precedence)
             THEN ParseResult(left, idx, errs, FALSE)
             ELSE LET operator == token.value
                      right == parseExpression(toks, idx + 1, operatorPrecedence)
                  IN  IF right.crash
                      THEN ParseResult(NoExpression, right.idx, errs \o right.errs, TRUE)
                      ELSE BinaryLoop(toks,
                                      IF Truthy(operator) /\ right.node # NoExpression
                                      THEN BinaryExpression(left, operator, right.node)
                                      ELSE left,
                                      right.idx, errs \o right.errs, precedence)

parseBinaryExpression(toks, idx, precedence) ==
    LET left == parseAtom(toks, idx) IN
    IF left.crash THEN left
    ELSE BinaryLoop(toks, left.node, left.idx, left.errs, precedence)

parseExpression(toks, idx, precedence) ==
    IF peekNext(toks, idx).type # "EOL"
    THEN parseBinaryExpression(toks, idx, precedence)
    ELSE parseAtom(toks, idx)

\* the while loop of parseExpressionList; the node of the result is the array
RECURSIVE ExpressionListLoop(_, _, _, _)
ExpressionListLoop(toks, expressions, idx, errs) ==
    IF ~(idx < Len(toks) /\ toks[idx + 1].type # "EOL")
    THEN ParseResult(expressions, idx, errs, FALSE)
    ELSE LET expression == parseExpression(toks, idx, 0)
             pushed == IF expression.node # NoExpression
                       THEN Append(expressions, expression.node)
                       ELSE expressions
             all == errs \o expression.errs
         IN  IF expression.crash
             THEN ParseResult(expressions, expression.idx, all, TRUE)
             ELSE IF expression.idx < Len(toks) /\ toks[expression.idx + 1].type = "COMMA"
             THEN ExpressionListLoop(toks, pushed, expression.idx + 1, all)
             ELSE ParseResult(pushed, expression.idx, all, FALSE)

parseExpressionList(toks, idx) == ExpressionListLoop(toks, <<>>, idx, <<>>)

-----------------------------------------------------------------------------
(* Characters *)

Letters ==
    {"a", "b", "c", "d", "e", "f", "g", "h", "i", "j", "k", "l", "m",
     "n", "o", "p", "q", "r", "s", "t", "u", "v", "w", "x", "y", "z",
     "A", "B", "C", "D", "E", "F", "G", "H", "I", "J", "K", "L", "M",
     "N", "O", "P", "Q", "R", "S", "T", "U", "V", "W", "X", "Y", "Z"}
Digits == {"0", "1", "2", "3", "4", "5", "6", "7", "8", "9"}

\* /[a-zA-Z_]/
IsIdentifierChar(c) == c \in Letters \cup {"_"}
\* /[0-9]/ and \d
IsDigit(c) == c \in Digits
\* \w
IsWordChar(c) == c \in Letters \cup Digits \cup {"_"}
\* \s (of the characters the model uses)
IsSpace(c) == c \in {" ", "\t", "\n", "\r"}
\* what `.` does not match
IsLineTerminator(c) == c \in {"\n", "\r"}

DigitValue(c) == CHOOSE n \in 0..9 : <<"0", "1", "2", "3", "4", "5", "6", "7", "8", "9">>[n + 1] = c

\* parseInt of a string that starts with digits: the value of its leading digits
RECURSIVE DigitsValue(_, _)
DigitsValue(chars, acc) ==
    IF chars = <<>> \/ ~IsDigit(Head(chars)) THEN acc
    ELSE DigitsValue(Tail(chars), acc * 10 + DigitValue(Head(chars)))
parseInt(chars) == Num(DigitsValue(chars, 0))

\* the text of `undefined` when it is concatenated to a string
UndefinedText == <<"u", "n", "d", "e", "f", "i", "n", "e", "d">>

\* input[i] of a JavaScript string: undefined past the end
CharAt(in, i) == IF i >= 0 /\ i < Len(in) THEN Str(<<in[i + 1]>>) ELSE Undefined

\* string + value
Concat(chars, v) == chars \o (IF v = Undefined THEN UndefinedText ELSE v.s)

\* input.slice(from, to)
Slice(in, from, to) ==
    SubSeq(in, from + 1, IF to > Len(in) THEN Len(in) ELSE to)

-----------------------------------------------------------------------------
(* The hand-written Lexer *)

\* what a read method leaves behind: the value it returns, the new position
\* and the console.error lines it wrote
ReadResult(value, pos, errs) == [value |-> value, pos |-> pos, errs |-> errs]

\* the while loop of readIdentifier: position is the index of the last
\* character taken
RECURSIVE IdentifierLoop(_, _, _)
IdentifierLoop(in, identifier, pos) ==
    IF pos + 1 < Len(in) /\ IsIdentifierChar(in[pos + 2])
    THEN IdentifierLoop(in, Append(identifier, in[pos + 2]), pos + 1)
    ELSE [chars |-> identifier, pos |-> pos]

readIdentifier(in, pos) ==
    LET errs == IF pos >= Len(in) \/ ~IsIdentifierChar(in[pos + 1])
                THEN error(<<>>, Err("Lexer", "expected identifier", Undefined, pos))
                ELSE <<>>
    IN  IF pos >= Len(in)
        THEN ReadResult(Undefined, pos, errs)
        ELSE LET r == IdentifierLoop(in, <<in[pos + 1]>>, pos)
             IN  ReadResult(Str(r.chars), r.pos, errs)

\* the while loop of readInteger
RECURSIVE IntegerLoop(_, _, _)
IntegerLoop(in, integerString, pos) ==
    IF pos < Len(in) /\ IsDigit(in[pos + 1])
    THEN IntegerLoop(in, Append(integerString, in[pos + 1]), pos + 1)
    ELSE [chars |-> integerString, pos |-> pos]

readInteger(in, pos) ==
    LET r == IntegerLoop(in, <<in[pos + 1]>>, pos + 1)
    IN  ReadResult(parseInt(r.chars), r.pos - 1, <<>>)

\* the while loop of readString
RECURSIVE StringLoop(_, _, _)
StringLoop(in, string, pos) ==
    IF pos < Len(in) /\ in[pos + 1] # "\""
    THEN LET p == IF in[pos + 1] = "\\" THEN pos + 1 ELSE pos
         IN  StringLoop(in, Concat(string, CharAt(in, p)), p + 1)
    ELSE [chars |-> string, pos |-> pos]

readString(in, pos) ==
    LET r == StringLoop(in, <<>>, pos + 1)
    IN  ReadResult(Str(r.chars), r.pos, <<>>)

\* the while loop of the comment case
RECURSIVE CommentLoop(_, _)
CommentLoop(in, pos) ==
    IF pos < Len(in) /\ in[pos + 1] # "\n" THEN CommentLoop(in, pos + 1) ELSE pos

UnexpectedSymbol(in, pos) == Err("Lexer", "unexpected symbol", CharAt(in, pos), pos)

SingleCharTokenType(char) ==
    CASE char = "=" -> "EQUAL"
      [] char = "+" -> "PLUS"
      [] char = "-" -> "MINUS"
      [] char = "*" -> "MULTIPLY"
      [] char = "/" -> "DIVISION"
      [] char = "," -> "COMMA"
      [] char \in {";", "\n"} -> "EOL"

\* the switch of Lexer.lex at `pos`: the tokens pushed, the position the case
\* leaves (before the loop's position++), the lines written
LexCase(in, pos) ==
    LET char == in[pos + 1]
        Result(toks, p, errs) == [tokens |-> toks, pos |-> p, errs |-> errs]
    IN  CASE char \in {" ", "\t"} -> Result(<<>>, pos, <<>>)
          [] char = "%" -> Result(<<>>, CommentLoop(in, pos), <<>>)
          [] char = "@" ->
               LET r == readIdentifier(in, pos + 1)
               IN  Result(<<Token("UNSUPPORTED", Str(Concat(<<char>>, r.value)))>>,
                          r.pos, r.errs)
          [] char \in {"=", "+", "-", "*", "/", ",", ";", "\n"} ->
               Result(<<Token(SingleCharTokenType(char), Str(<<char>>))>>, pos, <<>>)
          [] char = "P" ->
               IF Slice(in, pos, pos + 5) = <<"P", "R", "I", "N", "T">>
               THEN Result(<<Token("PRINT", Str(<<"P", "R", "I", "N", "T">>))>>, pos + 4, <<>>)
               ELSE Result(<<>>, pos, error(<<>>, UnexpectedSymbol(in, pos)))
          [] char = "$" ->
               LET r == readIdentifier(in, pos + 1)
               IN  Result(<<Token("VARIABLE", r.value)>>, r.pos, r.errs)
          [] char = "\"" ->
               LET r == readString(in, pos)
               IN  Result(<<Token("STRING", r.value)>>, r.pos, r.errs)
          [] IsDigit(char) ->
               LET r == readInteger(in, pos)
               IN  Result(<<Token("INTEGER", r.value)>>, r.pos, r.errs)
          [] OTHER -> Result(<<>>, pos, error(<<>>, UnexpectedSymbol(in, pos)))

-----------------------------------------------------------------------------
(* The table-driven Lexer and lexerRules *)

\* the character classes of the patterns
InClass(class, c) ==
    CASE class = "\\s" -> IsSpace(c)
      [] class = "\\w" -> IsWordChar(c)
      [] class = "\\d" -> IsDigit(c)
      [] class = "."   -> ~IsLineTerminator(c)

\* class* at the start of `rest`: the number of leading characters in the class
Run(rest, class) ==
    CHOOSE n \in 0..Len(rest) :
        /\ \A i \in 1..n : InClass(class, rest[i])
        /\ n = Len(rest) \/ ~InClass(class, rest[n + 1])

\* the length of the match of  "((?:[^"\\]|\\.)*)"  at the start of `rest`
\* scanned from offset i (just after the opening quote), -1 when it fails
RECURSIVE StringMatch(_, _)
StringMatch(rest, i) ==
    IF i >= Len(rest) THEN -1
    ELSE IF rest[i + 1] = "\"" THEN i + 1
    ELSE IF rest[i + 1] = "\\"
    THEN IF i + 1 < Len(rest) /\ ~IsLineTerminator(rest[i + 2])
         THEN StringMatch(rest, i + 2)
         ELSE -1
    ELSE StringMatch(rest, i + 1)

NoMatch == [len |-> -1, inner |-> <<>>]
Matched(rest, n, from) == [len |-> n, inner |-> SubSeq(rest, from + 1, n)]

\* rest.match(pattern): the length of match[0] (-1: null) and match[1]
Match(pattern, rest) ==
    LET OneOf(S) == IF rest # <<>> /\ Head(rest) \in S THEN Matched(rest, 1, 0) ELSE NoMatch
    IN  CASE pattern = "^[\\n;]" -> OneOf({"\n", ";"})
          [] pattern = "^\\s+" ->
               IF Run(rest, "\\s") > 0 THEN Matched(rest, Run(rest, "\\s"), 0) ELSE NoMatch
          [] pattern = "^%.*" ->
               IF rest # <<>> /\ Head(rest) = "%"
               THEN Matched(rest, 1 + Run(Tail(rest), "."), 0)
               ELSE NoMatch
          [] pattern = "^@\\w+" ->
               IF rest # <<>> /\ Head(rest) = "@" /\ Run(Tail(rest), "\\w") > 0
               THEN Matched(rest, 1 + Run(Tail(rest), "\\w"), 0)
               ELSE NoMatch
          [] pattern = "^=" -> OneOf({"="})
          [] pattern = "^," -> OneOf({","})
          [] pattern = "^\\+" -> OneOf({"+"})
          [] pattern = "^-" -> OneOf({"-"})
          [] pattern = "^\\*" -> OneOf({"*"})
          [] pattern = "^\\/" -> OneOf({"/"})
          [] pattern = "^\\$(\\w+)" ->
               IF rest # <<>> /\ Head(rest) = "$" /\ Run(Tail(rest), "\\w") > 0
               THEN Matched(rest, 1 + Run(Tail(rest), "\\w"), 1)
               ELSE NoMatch
          [] pattern = "^\"((?:[^\"\\\\]|\\\\.)*)\"" ->
               IF rest # <<>> /\ Head(rest) = "\"" /\ StringMatch(rest, 1) > 0
               THEN [len |-> StringMatch(rest, 1),
                     inner |-> SubSeq(rest, 2, StringMatch(rest, 1) - 1)]
               ELSE NoMatch
          [] pattern = "^\\d+" ->
               IF Run(rest, "\\d") > 0 THEN Matched(rest, Run(rest, "\\d"), 0) ELSE NoMatch
          [] pattern = "^PRINT" ->
               IF Len(rest) >= 5 /\ SubSeq(rest, 1, 5) = <<"P", "R", "I", "N", "T">>
               THEN Matched(rest, 5, 0)
               ELSE NoMatch

\* string.replace(/\\(["\\])/g, "$1")
RECURSIVE Unescape(_)
Unescape(chars) ==
    IF chars = <<>> THEN <<>>
    ELSE IF Head(chars) = "\\" /\ Len(chars) >= 2 /\ chars[2] \in {"\"", "\\"}
    THEN <<chars[2]>> \o Unescape(Tail(Tail(chars)))
    ELSE <<Head(chars)>> \o Unescape(Tail(chars))

Rule(pattern, tokenType, skipToken, skipNextSymbol, innerMatch, action) ==
    [pattern |-> pattern, tokenType |-> tokenType, skipToken |-> skipToken,
     skipNextSymbol |-> skipNextSymbol, innerMatch |-> innerMatch, action |-> action]

lexerRules ==
    <<Rule("^[\\n;]", "EOL", FALSE, FALSE, FALSE, "none"),
      Rule("^\\s+", "WHITESPACE", TRUE, FALSE, FALSE, "none"),
      Rule("^%.*", "COMMENT", TRUE, TRUE, FALSE, "none"),
      Rule("^@\\w+", "UNSUPPORTED", FALSE, FALSE, FALSE, "none"),
      Rule("^=", "EQUAL", FALSE, FALSE, FALSE, "none"),
      Rule("^,", "COMMA", FALSE, FALSE, FALSE, "none"),
      Rule("^\\+", "PLUS", FALSE, FALSE, FALSE, "none"),
      Rule("^-", "MINUS", FALSE, FALSE, FALSE, "none"),
      Rule("^\\*", "MULTIPLY", FALSE, FALSE, FALSE, "none"),
      Rule("^\\/", "DIVISION", FALSE, FALSE, FALSE, "none"),
      Rule("^\\$(\\w+)", "VARIABLE", FALSE, FALSE, TRUE, "none"),
      Rule("^\"((?:[^\"\\\\]|\\\\.)*)\"", "STRING", FALSE, FALSE, TRUE, "unescape"),
      Rule("^\\d+", "INTEGER", FALSE, FALSE, FALSE, "parseInt"),
      Rule("^PRINT", "PRINT", FALSE, FALSE, FALSE, "none")>>

\* rule.action(tokenValue)
ApplyAction(action, chars) ==
    CASE action = "unescape" -> Str(Unescape(chars))
      [] action = "parseInt" -> parseInt(chars)
      [] OTHER -> Str(chars)

\* the index of the first rule of the table that matches `rest`, 0 when none
FirstMatch(rules, rest) ==
    LET matching == {i \in 1..Len(rules) : Match(rules[i].pattern, rest).len >= 0}
    IN  IF matching = {} THEN 0 ELSE CHOOSE i \in matching : \A j \in matching : i <= j

\* one iteration of the while loop of the table-driven lex at `pos`
LexTableCase(rules, in, pos) ==
    LET rest == SubSeq(in, pos + 1, Len(in))
        i == FirstMatch(rules, rest)
    IN  IF i = 0
        THEN [tokens |-> <<>>, pos |-> pos, errs |-> error(<<>>, UnexpectedSymbol(in, pos))]
        ELSE LET rule == rules[i]
                 match == Match(rule.pattern, rest)
                 tokenValue == ApplyAction(rule.action,
                                           IF rule.innerMatch THEN match.inner
                                           ELSE SubSeq(rest, 1, match.len))
             IN  [tokens |-> IF rule.skipToken THEN <<>>
                             ELSE <<Token(rule.tokenType, tokenValue)>>,
                  pos |-> pos + match.len + (IF rule.skipNextSymbol THEN 1 ELSE 0),
                  errs |-> <<>>]

-----------------------------------------------------------------------------
(* lex() as a function of the input *)

\* what a call of lex leaves behind: the tokens pushed, the lines written, and
\* whether it returns (the table-driven loop does not leave a position where
\* no rule matches)
LexResult(toks, errs, returns) == [tokens |-> toks, errs |-> errs, returns |-> returns]

\* the while loop of either lex from `pos` on
RECURSIVE LexLoop(_, _, _)
LexLoop(kind, in, pos) ==
    IF pos >= Len(in) THEN LexResult(<<>>, <<>>, TRUE)
    ELSE IF kind = "hardcoded"
    THEN LET r == LexCase(in, pos)
             rest == LexLoop(kind, in, r.pos + 1)
         IN  LexResult(r.tokens \o rest.tokens, r.errs \o rest.errs, rest.returns)
    ELSE LET r == LexTableCase(lexerRules, in, pos)
         IN  IF r.pos = pos THEN LexResult(<<>>, r.errs, FALSE)
             ELSE LET rest == LexLoop(kind, in, r.pos)
                  IN  LexResult(r.tokens \o rest.tokens, r.errs \o rest.errs, rest.returns)

lex(kind, in) == LexLoop(kind, in, 0)

-----------------------------------------------------------------------------
(* Numbers: IEEE 754 binary64 arithmetic and Number/String conversion *)

\* A finite number is  n * m / 2^p. An integer below 2 * 10^9 in magnitude is
\* Num(n) (m = 1, p = 0, left out of the record); every other finite number is
\* Double(sign, m, p) with sign 1 or -1 and m an odd natural of at most
\* MantissaBits bits, written as a sequence of decimal limbs, least
\* significant first. The exponent range (overflow to Infinity, subnormals)
\* and the sign of zero are not modelled: -0 and 0 print alike and are both
\* falsy, and the inputs of the model stay far from the range's ends.
Double(sign, m, p) ==
    [t |-> "number", n |-> sign, d |-> 2, s |-> <<>>, m |-> m, p |-> p]

\* the bits of a binary64 significand
MantissaBits == 53

Abs(i) == IF i < 0 THEN -i ELSE i
Sign(i) == IF i < 0 THEN -1 ELSE IF i > 0 THEN 1 ELSE 0

IsFinite(a) == a.d # 0
NaN == Frac(0, 0)

(* naturals of any size: sequences of limbs below LimbBase, least         *)
(* significant first, without high zero limbs                              *)

LimbBase == 10 * 1000

RECURSIVE Limbs(_)
Limbs(n) == IF n = 0 THEN <<>> ELSE <<n % LimbBase>> \o Limbs(n \div LimbBase)

RECURSIVE Strip(_)
Strip(a) ==
    IF a # <<>> /\ a[Len(a)] = 0 THEN Strip(SubSeq(a, 1, Len(a) - 1)) ELSE a

LimbAt(a, i) == IF i <= Len(a) THEN a[i] ELSE 0

Less(a, b) ==
    LET n == IF Len(a) > Len(b) THEN Len(a) ELSE Len(b)
    IN  \E i \in 1..n :
            /\ LimbAt(a, i) < LimbAt(b, i)
            /\ \A j \in (i + 1)..n : LimbAt(a, j) = LimbAt(b, j)

Same(a, b) == ~Less(a, b) /\ ~Less(b, a)

\* a + b + carry
RECURSIVE AddCarry(_, _, _)
AddCarry(a, b, carry) ==
    IF a = <<>> /\ b = <<>> THEN (IF carry = 0 THEN <<>> ELSE <<carry>>)
    ELSE LET sum == LimbAt(a, 1) + LimbAt(b, 1) + carry
         IN  <<sum % LimbBase>>
             \o AddCarry(IF a = <<>> THEN a ELSE Tail(a), IF b = <<>> THEN b ELSE Tail(b),
                         sum \div LimbBase)

Add(a, b) == AddCarry(a, b, 0)

\* a - b - borrow, for a >= b + borrow
RECURSIVE SubBorrow(_, _, _)
SubBorrow(a, b, borrow) ==
    IF a = <<>> THEN <<>>
    ELSE LET diff == a[1] - LimbAt(b, 1) - borrow
         IN  <<IF diff < 0 THEN diff + LimbBase ELSE diff>>
             \o SubBorrow(Tail(a), IF b = <<>> THEN b ELSE Tail(b), IF diff < 0 THEN 1 ELSE 0)

Sub(a, b) == Strip(SubBorrow(a, b, 0))

\* a * c + carry, for c and carry below 2 * 10^5
RECURSIVE MulCarry(_, _, _)
MulCarry(a, c, carry) ==
    IF a = <<>> THEN Limbs(carry)
    ELSE LET product == a[1] * c + carry
         IN  <<product % LimbBase>> \o MulCarry(Tail(a), c, product \div LimbBase)

MulSmall(a, c) == Strip(MulCarry(a, c, 0))

\* a \div c and a % c, for c below 2 * 10^5
RECURSIVE DivSmall(_, _)
DivSmall(a, c) ==
    IF a = <<>> THEN [q |-> <<>>, r |-> 0]
    ELSE LET high == DivSmall(Tail(a), c)
             x == high.r * LimbBase + a[1]
         IN  [q |-> Strip(<<x \div c>> \o high.q), r |-> x % c]

\* a * b by the limbs of b
RECURSIVE MulLimbs(_, _)
MulLimbs(a, b) ==
    IF b = <<>> THEN <<>>
    ELSE LET rest == MulLimbs(a, Tail(b))
         IN  Add(MulSmall(a, b[1]), IF rest = <<>> THEN rest ELSE <<0>> \o rest)

Mul(a, b) == IF Len(a) < Len(b) THEN MulLimbs(b, a) ELSE MulLimbs(a, b)

\* a * c^k, for c^6 below 2 * 10^5 (c is 2 or 5)
RECURSIVE TimesPower(_, _, _)
TimesPower(a, c, k) ==
    IF k <= 0 THEN a
    ELSE IF k <= 6 THEN MulSmall(a, c^k)
    ELSE LET half == TimesPower(a, c, k \div 2)
         IN  IF half = <<>> THEN half ELSE TimesPower(half, c, k - k \div 2)

\* a \div 2^k, and whether the division leaves a remainder
RECURSIVE HalveTimes(_, _)
HalveTimes(a, k) ==
    IF k <= 0 THEN [q |-> a, inexact |-> FALSE]
    ELSE LET step == IF k >= 13 THEN 13 ELSE k
             one == DivSmall(a, 2^step)
             rest == HalveTimes(one.q, k - step)
         IN  [q |-> rest.q, inexact |-> rest.inexact \/ one.r # 0]

\* the number of bits of a
RECURSIVE BitLength(_)
BitLength(a) ==
    IF a = <<>> THEN 0
    ELSE IF Len(a) > 1 \/ a[1] >= 2^13 THEN 13 + BitLength(DivSmall(a, 2^13).q)
    ELSE CHOOSE k \in 1..13 : 2^(k - 1) <= a[1] /\ a[1] < 2^k

IsEven(a) == a = <<>> \/ a[1] % 2 = 0

\* a natural with at most 3 limbs, the highest below 20, as an integer
IsSmall(a) == Len(a) <= 2 \/ (Len(a) = 3 /\ a[3] < 20)
ToInteger(a) == LimbAt(a, 1) + LimbBase * LimbAt(a, 2) + LimbBase * LimbBase * LimbAt(a, 3)

(* finite numbers as sign, magnitude m and exponent p: sign * m / 2^p      *)

Parts(v) ==
    IF v.d = 2 THEN [sign |-> v.n, m |-> v.m, p |-> v.p]
    ELSE [sign |-> Sign(v.n), m |-> Limbs(Abs(v.n)), p |-> 0]

\* m / 2^p with the common factors of two removed
RECURSIVE Reduced(_, _)
Reduced(m, p) ==
    IF m # <<>> /\ IsEven(m) THEN Reduced(DivSmall(m, 2).q, p - 1)
    ELSE [m |-> m, p |-> p]

\* the number sign * m / 2^p, for m of at most MantissaBits bits
Finite(sign, m, p) ==
    LET r == Reduced(m, p)
        integer == TimesPower(r.m, 2, -r.p)
    IN  IF r.m = <<>> THEN Num(0)
        ELSE IF r.p <= 0 /\ -r.p <= 31 /\ IsSmall(integer) THEN Num(sign * ToInteger(integer))
        ELSE Double(sign, r.m, r.p)

\* sign * m / 2^p cut to MantissaBits bits
RoundDown(sign, m, p, inexact) ==
    LET drop == BitLength(m) - MantissaBits IN
    IF drop <= 0 THEN Finite(sign, m, p)
    ELSE Finite(sign, HalveTimes(m, drop).q, p - drop)

\* sign * m / 2^p rounded to the nearest number, ties to even; `inexact`
\* says that m is the floor of a magnitude that is not a natural
Round(sign, m, p, inexact) ==
    LET drop == BitLength(m) - MantissaBits IN
    IF drop <= 0 THEN Finite(sign, m, p)
    ELSE LET above == HalveTimes(m, drop - 1)
             half == DivSmall(above.q, 2)
             up == half.r = 1 /\ (above.inexact \/ inexact \/ ~IsEven(half.q))
         IN  Finite(sign, IF up THEN Add(half.q, <<1>>) ELSE half.q, p - drop)

\* the sign of a zero result is not modelled
NumNeg(a) ==
    IF a.d = 2 THEN Double(-a.n, a.m, a.p) ELSE Frac(-a.n, a.d)

NumAdd(a, b) ==
    IF a = NaN \/ b = NaN THEN NaN
    ELSE IF ~IsFinite(a) /\ ~IsFinite(b) THEN (IF a = b THEN a ELSE NaN)
    ELSE IF ~IsFinite(a) THEN a
    ELSE IF ~IsFinite(b) THEN b
    ELSE IF a.d = 1 /\ b.d = 1 /\ Abs(a.n) < 2^29 /\ Abs(b.n) < 2^29 THEN Num(a.n + b.n)
    ELSE LET x == Parts(a)
             y == Parts(b)
             p == IF x.p > y.p THEN x.p ELSE y.p
             xm == TimesPower(x.m, 2, p - x.p)
             ym == TimesPower(y.m, 2, p - y.p)
         IN  IF x.sign = y.sign \/ x.sign = 0 \/ y.sign = 0
             THEN Round(IF x.sign = 0 THEN y.sign ELSE x.sign, Add(xm, ym), p, FALSE)
             ELSE IF Less(xm, ym) THEN Round(y.sign, Sub(ym, xm), p, FALSE)
             ELSE Round(x.sign, Sub(xm, ym), p, FALSE)

NumSub(a, b) == NumAdd(a, NumNeg(b))

NumMul(a, b) ==
    IF ~IsFinite(a) \/ ~IsFinite(b) THEN Frac(Sign(a.n) * Sign(b.n), 0)
    ELSE IF a.d = 1 /\ b.d = 1 /\ Abs(a.n) < 2^15 /\ Abs(b.n) < 2^15 THEN Num(a.n * b.n)
    ELSE LET x == Parts(a)
             y == Parts(b)
         IN  Round(x.sign * y.sign, Mul(x.m, y.m), x.p + y.p, FALSE)

\* one more bit of a quotient by b: s.q the bits so far, s.r the remainder
QuotientBit(s, b) ==
    LET twice == MulSmall(s.r, 2)
    IN  IF Less(twice, b) THEN [q |-> MulCarry(s.q, 2, 0), r |-> twice]
        ELSE [q |-> MulCarry(s.q, 2, 1), r |-> Sub(twice, b)]

\* `bits` more bits
RECURSIVE QuotientBits(_, _, _)
QuotientBits(s, b, bits) ==
    IF bits = 0 THEN s
    ELSE IF bits = 1 THEN QuotientBit(s, b)
    ELSE LET first == QuotientBits(s, b, bits \div 2)
         IN  IF first.r = <<>> THEN [q |-> TimesPower(first.q, 2, bits - bits \div 2), r |-> <<>>]
             ELSE QuotientBits(first, b, bits - bits \div 2)

NumDiv(a, b) ==
    IF a = NaN \/ b = NaN THEN NaN
    ELSE IF ~IsFinite(a) THEN (IF IsFinite(b) THEN Frac(a.n * (IF b.n < 0 THEN -1 ELSE 1), 0)
                               ELSE NaN)
    ELSE IF ~IsFinite(b) THEN Num(0)
    ELSE IF b.n = 0 THEN Frac(Sign(a.n), 0)
    ELSE IF a.d = 1 /\ b.d = 1 /\ Abs(a.n) % Abs(b.n) = 0
    THEN Num(Sign(a.n) * Sign(b.n) * (Abs(a.n) \div Abs(b.n)))
    ELSE LET x == Parts(a)
             y == Parts(b)
             \* dividend x.m * 2^j and divisor y.m * 2^i of the same bit length,
             \* and the dividend doubled once more when below the divisor:
             \* divisor <= dividend < 2 * divisor
             longer == BitLength(y.m) - BitLength(x.m)
             i == IF longer < 0 THEN -longer ELSE 0
             divisor == TimesPower(y.m, 2, i)
             aligned == TimesPower(x.m, 2, IF longer > 0 THEN longer ELSE 0)
             below == Less(aligned, divisor)
             j == (IF longer > 0 THEN longer ELSE 0) + (IF below THEN 1 ELSE 0)
             dividend == IF below THEN MulSmall(aligned, 2) ELSE aligned
             quotient == QuotientBits([q |-> <<1>>, r |-> Sub(dividend, divisor)], divisor,
                                      MantissaBits + 1)
         IN  Round(x.sign * y.sign, quotient.q,
                   MantissaBits + 1 + j - i + x.p - y.p, quotient.r # <<>>)

(* Number::toString: the shortest decimal digits that read back as the    *)
(* same number                                                            *)

DigitChars == <<"0", "1", "2", "3", "4", "5", "6", "7", "8", "9">>

RECURSIVE NatToChars(_)
NatToChars(n) ==
    IF n < 10 THEN <<DigitChars[n + 1]>>
    ELSE Append(NatToChars(n \div 10), DigitChars[(n % 10) + 1])

\* the decimal digits of a natural, least significant first
RECURSIVE LimbDigits(_)
LimbDigits(a) ==
    IF a = <<>> THEN <<>>
    ELSE <<a[1] % 10, (a[1] \div 10) % 10, (a[1] \div 100) % 10, a[1] \div 1000>>
         \o LimbDigits(Tail(a))

RECURSIVE DigitsToChars(_)
DigitsToChars(digits) ==
    IF digits = <<>> THEN <<>>
    ELSE Append(DigitsToChars(Tail(digits)), DigitChars[digits[1] + 1])

\* the decimal digits of a natural as characters, most significant first
BigToChars(a) == DigitsToChars(Strip(LimbDigits(a)))

\* a natural without its low decimal zeros, and the count of zeros removed
RECURSIVE WithoutLowZeros(_, _)
WithoutLowZeros(a, z) ==
    IF a # <<>> /\ a[1] % 10 = 0 THEN WithoutLowZeros(DivSmall(a, 10).q, z + 1)
    ELSE [digits |-> a, z |-> z]

\* The multiples of 10^z next to i.x, the one at or below and the one above:
\* whether each lies within the interval from i.x - i.lo to i.x + i.hi
\* (without its ends unless i.closed), which is nearer, and each divided by
\* 10^z.
Neighbours(i, z) ==
    LET limbs == z \div 4
        power == 10^(z % 4)
        low == Strip(SubSeq(i.x, 1, limbs) \o <<LimbAt(i.x, limbs + 1) % power>>)
        high == DivSmall(SubSeq(i.x, limbs + 1, Len(i.x)), power).q
        unit == [k \in 1..(limbs + 1) |-> IF k = limbs + 1 THEN power ELSE 0]
        above == Add(i.hi, low)
        twice == Add(low, low)
    IN  [down |-> high # <<>> /\ (Less(low, i.lo) \/ (i.closed /\ Same(low, i.lo))),
         up |-> Less(unit, above) \/ (i.closed /\ Same(unit, above)),
         nearerDown |-> Less(twice, unit) \/ (Same(twice, unit) /\ IsEven(high)),
         downDigits |-> high,
         upDigits |-> Add(high, <<1>>)]

\* the greatest z from `least` to `most` with a multiple of 10^z within the
\* interval; there is one for `least`, and with one for z there is one for
\* every smaller z
RECURSIVE Coarsest(_, _, _)
Coarsest(i, least, most) ==
    IF least = most THEN least
    ELSE LET middle == (least + most + 1) \div 2
             c == Neighbours(i, middle)
         IN  IF c.down \/ c.up THEN Coarsest(i, middle, most)
             ELSE Coarsest(i, least, middle - 1)

\* the digits of the shortest decimal within the interval, the nearest to
\* i.x among the shortest, and the power of ten they are multiplied by
Shortest(i) ==
    LET z == Coarsest(i, 0, 4 * Len(i.x))
        c == Neighbours(i, z)
    IN  WithoutLowZeros(IF c.down /\ (~c.up \/ c.nearerDown) THEN c.downDigits
                        ELSE c.upDigits, z)

Zeros(k) == [i \in 1..k |-> "0"]

\* the text of  0.s * 10^n  for the digit characters s
Decimal(s, n) ==
    LET k == Len(s)
        e == n - 1
    IN  IF k <= n /\ n <= 21 THEN s \o Zeros(n - k)
        ELSE IF 0 < n /\ n <= 21 THEN SubSeq(s, 1, n) \o <<".">> \o SubSeq(s, n + 1, k)
        ELSE IF -6 < n /\ n <= 0 THEN <<"0", ".">> \o Zeros(-n) \o s
        ELSE <<s[1]>> \o (IF k = 1 THEN <<>> ELSE <<".">> \o Tail(s))
             \o <<"e", IF e < 0 THEN "-" ELSE "+">> \o NatToChars(Abs(e))

\* the text of m / 2^p, for m odd of at most MantissaBits bits
DoubleText(m, p) ==
    LET shift == MantissaBits - BitLength(m)
        \* in units of 2^-q the number is 4 * m * 2^shift, half the gap to
        \* the next number above is 2, and half the gap to the next number
        \* below is 2, or 1 under a power of two
        q == p + shift + 2
        scale == IF q > 0 THEN q ELSE 0
        unit == IF q > 0 THEN TimesPower(<<1>>, 5, q) ELSE TimesPower(<<1>>, 2, -q)
        found == Shortest([x |-> Mul(TimesPower(m, 2, shift + 2), unit),
                           hi |-> MulSmall(unit, 2),
                           lo |-> IF m = <<1>> THEN unit ELSE MulSmall(unit, 2),
                           closed |-> shift > 0])
        s == BigToChars(found.digits)
    IN  Decimal(s, Len(s) + found.z - scale)

\* String(v) as Array.prototype.join applies it
JsString(v) ==
    CASE v.t = "string" -> v.s
      [] v.t = "undefined" -> <<>>
      [] v.d = 0 /\ v.n = 0 -> <<"N", "a", "N">>
      [] v.d = 0 /\ v.n > 0 -> <<"I", "n", "f", "i", "n", "i", "t", "y">>
      [] v.d = 0 /\ v.n < 0 -> <<"-", "I", "n", "f", "i", "n", "i", "t", "y">>
      [] v.d = 1 -> (IF v.n < 0 THEN <<"-">> ELSE <<>>) \o NatToChars(Abs(v.n))
      [] OTHER -> (IF v.n < 0 THEN <<"-">> ELSE <<>>) \o DoubleText(v.m, v.p)

\* values.join(" ")
RECURSIVE Join(_)
Join(values) ==
    IF values = <<>> THEN <<>>
    ELSE IF Len(values) = 1 THEN JsString(values[1])
    ELSE JsString(values[1]) \o <<" ">> \o Join(Tail(values))

-----------------------------------------------------------------------------
(* Interpreter *)

\* what evaluateExpression leaves behind: the value it returns and the
\* console.error lines it wrote
EvalResult(value, errs) == [value |-> value, errs |-> errs]

StoreWithBinding == [k \in {Str(<<"a">>)} |-> Str(<<"a">>)]

\* new Map()
EmptyStore == [k \in {} |-> Undefined]

StoreSetDropped(store, key, value) == store

StoreSetKeepFirst(store, key, value) ==
    [k \in DOMAIN store \cup {key} |-> IF k \in DOMAIN store THEN store[k] ELSE value]

\* Map.prototype.set
StoreSet(store, key, value) ==
    [k \in DOMAIN store \cup {key} |-> IF k = key THEN value ELSE store[k]]

StoreGetNothing(store, key) == Undefined

\* Map.prototype.get
StoreGet(store, key) == IF key \in DOMAIN store THEN store[key] ELSE Undefined

RECURSIVE evaluateExpression(_, _)
evaluateExpression(expr, store) ==
    CASE expr.type = "VariableReference" ->
           EvalResult(StoreGet(store, expr.varname),
                      IF expr.varname \notin DOMAIN store
                      THEN error(<<>>, Err("Interpreter", "variable is not defined",
                                           expr.varname, -1))
                      ELSE <<>>)
      [] expr.type = "Literal" -> EvalResult(expr.value, <<>>)
      [] expr.type = "BinaryExpression" ->
           LET left == evaluateExpression(expr.left, store)
               right == evaluateExpression(expr.right, store)
               errs == left.errs \o right.errs
               l == left.value
               r == right.value
           IN  IF typeof(l) # "number" \/ typeof(r) # "number"
               THEN EvalResult(Undefined,
                               error(errs, Err("Interpreter", "operands must be numbers",
                                               Undefined, -1)))
               ELSE CASE expr.operator = Str(<<"+">>) -> EvalResult(NumAdd(l, r), errs)
                      [] expr.operator = Str(<<"-">>) -> EvalResult(NumSub(l, r), errs)
                      [] expr.operator = Str(<<"*">>) -> EvalResult(NumMul(l, r), errs)
                      [] expr.operator = Str(<<"/">>) -> EvalResult(NumDiv(l, r), errs)
                      [] OTHER -> EvalResult(Undefined, errs)
      [] OTHER -> EvalResult(Undefined, <<>>)

\* statement.expressions.map((expr) => this.evaluateExpression(expr))
RECURSIVE EvaluateAll(_, _)
EvaluateAll(exprs, store) ==
    IF exprs = <<>> THEN <<>>
    ELSE <<evaluateExpression(exprs[1], store)>> \o EvaluateAll(Tail(exprs), store)

RECURSIVE Flatten(_)
Flatten(seqs) == IF seqs = <<>> THEN <<>> ELSE seqs[1] \o Flatten(Tail(seqs))

\* .filter((value) => value !== undefined)
Defined(values) == SelectSeq(values, LAMBDA v : v # Undefined)

\* the string value of the enum member statement.type; NodeType has no member
\* for an unsupported statement, so its type is undefined
NodeTypeText(type) ==
    CASE type = "AssignmentStatement" -> Str(<<"A", "s", "s", "i", "g", "n", "e", "m", "n", "t">>)
      [] type = "PrintStatement" -> Str(<<"P", "r", "i", "n", "t">>)
      [] OTHER -> Undefined

-----------------------------------------------------------------------------
(* The stages as steps: one action per iteration of a stage's main loop *)

\* a loop that reports an error without advancing reports it forever; the
\* model keeps MaxErrors lines more than a run that advances can write
ErrorCap(n) == n + MaxErrors

\* one iteration of the while loop of the hand-written Lexer.lex
LexStep ==
    /\ pc = "lex"
    /\ lexerKind = "hardcoded"
    /\ position < Len(input)
    /\ LET r == LexCase(input, position) IN
       /\ tokens' = tokens \o r.tokens
       /\ errors' = errors \o r.errs
       /\ position' = r.pos + 1
    /\ UNCHANGED <<lexerKind, input, currentIndex, statements, stmtIndex, variables,
                   output, pc>>

\* one iteration of the while loop of the table-driven Lexer.lex
LexTableStep ==
    /\ pc = "lex"
    /\ lexerKind = "table"
    /\ position < Len(input)
    /\ LET r == LexTableCase(lexerRules, input, position) IN
       \* no rule matches: reported, and the position is not advanced
       /\ r.pos = position => Len(errors) < ErrorCap(Len(input))
       /\ tokens' = tokens \o r.tokens
       /\ errors' = errors \o r.errs
       /\ position' = r.pos
    /\ UNCHANGED <<lexerKind, input, currentIndex, statements, stmtIndex, variables,
                   output, pc>>

\* `return this.tokens` of either lex, and new Parser(tokens)
LexReturn ==
    /\ pc = "lex"
    /\ position >= Len(input)
    /\ pc' = "parse"
    /\ currentIndex' = 0
    /\ statements' = <<>>
    /\ UNCHANGED <<lexerKind, input, position, tokens, stmtIndex, variables,
                   output, errors>>

\* one iteration of the while loop of Parser.parse
ParseStep ==
    /\ pc = "parse"
    /\ currentIndex < Len(tokens)
    /\ LET token == tokens[currentIndex + 1] IN
       CASE token.type = "VARIABLE" ->
              \* consume the name, consume whatever follows it as the '='
              LET expression == parseExpression(tokens, currentIndex + 2, 0) IN
              /\ currentIndex' = expression.idx
              /\ errors' = errors \o expression.errs
              /\ pc' = IF expression.crash THEN "crashed" ELSE pc
              /\ statements' =
                   IF ~expression.crash /\ expression.node # NoExpression
                   THEN Append(statements,
                               AssignmentStatement(token.value, expression.node))
                   ELSE statements
         [] token.type = "PRINT" ->
              LET expressions == parseExpressionList(tokens, currentIndex + 1) IN
              /\ currentIndex' = expressions.idx
              /\ errors' = errors \o expressions.errs
              /\ pc' = IF expressions.crash THEN "crashed" ELSE pc
              /\ statements' =
                   IF ~expressions.crash
                   THEN Append(statements, PrintStatement(expressions.node))
                   ELSE statements
         [] token.type = "UNSUPPORTED" ->
              /\ statements' = Append(statements, UnsupportedStatement(token.value))
              /\ currentIndex' = currentIndex + 1
              /\ UNCHANGED <<errors, pc>>
         [] token.type = "EOL" ->
              /\ currentIndex' = currentIndex + 1
              /\ UNCHANGED <<statements, errors, pc>>
         [] OTHER ->
              \* reported, and the token is not consumed
              /\ Len(errors) < ErrorCap(Len(tokens))
              /\ errors' = error(errors, Err("Parser", "unexpected token", token.value, -1))
              /\ UNCHANGED <<statements, currentIndex, pc>>
    /\ UNCHANGED <<lexerKind, input, position, tokens, stmtIndex, variables, output>>

\* `return statements` of Parser.parse, and new Interpreter(statements)
ParseReturn ==
    /\ pc = "parse"
    /\ currentIndex >= Len(tokens)
    /\ pc' = "interpret"
    /\ stmtIndex' = 0
    /\ variables' = EmptyStore
    /\ UNCHANGED <<lexerKind, input, position, tokens, currentIndex, statements,
                   output, errors>>

\* one iteration of the for loop of Interpreter.interpret
InterpretStep ==
    /\ pc = "interpret"
    /\ stmtIndex < Len(statements)
    /\ LET statement == statements[stmtIndex + 1] IN
       CASE statement.type = "AssignmentStatement" ->
              LET result == evaluateExpression(statement.value, variables) IN
              IF Truthy(result.value)
              THEN /\ variables' = StoreSet(variables, statement.varname, result.value)
                   /\ errors' = errors \o result.errs
                   /\ UNCHANGED output
              ELSE /\ errors' = error(errors \o result.errs,
                                      Err("Interpreter", "error evaluating expression",
                                          Undefined, -1))
                   /\ UNCHANGED <<variables, output>>
         [] statement.type = "PrintStatement" ->
              LET results == EvaluateAll(statement.expressions, variables)
                  values == Defined([i \in 1..Len(results) |-> results[i].value])
              IN  /\ output' = Append(output, Join(values))
                  /\ errors' = errors \o Flatten([i \in 1..Len(results) |-> results[i].errs])
                  /\ UNCHANGED variables
         [] OTHER ->
              /\ errors' = error(errors, Err("Interpreter", "unsupported statement",
                                             NodeTypeText(statement.type), -1))
              /\ UNCHANGED <<variables, output>>
    /\ stmtIndex' = stmtIndex + 1
    /\ UNCHANGED <<lexerKind, input, position, tokens, currentIndex, statements, pc>>

\* the end of Interpreter.interpret
InterpretReturn ==
    /\ pc = "interpret"
    /\ stmtIndex >= Len(statements)
    /\ pc' = "done"
    /\ UNCHANGED <<lexerKind, input, position, tokens, currentIndex, statements,
                   stmtIndex, variables, output, errors>>

-----------------------------------------------------------------------------
(* Inputs *)

TokPlus == Token("PLUS", Str(<<"+">>))
TokMinus == Token("MINUS", Str(<<"-">>))
TokMultiply == Token("MULTIPLY", Str(<<"*">>))
TokDivision == Token("DIVISION", Str(<<"/">>))
TokEqual == Token("EQUAL", Str(<<"=">>))
TokComma == Token("COMMA", Str(<<",">>))
TokEol == Token("EOL", Str(<<";">>))
TokPrint == Token("PRINT", Str(<<"P", "R", "I", "N", "T">>))
TokUnsupported == Token("UNSUPPORTED", Str(<<"@", "d">>))
TokInteger(n) == Token("INTEGER", Num(n))
TokString(s) == Token("STRING", Str(s))
TokVariable(s) == Token("VARIABLE", Str(s))

OperatorTokens == {TokPlus, TokMinus, TokMultiply, TokDivision}
AtomTokens == {TokInteger(2), TokInteger(3), TokVariable(<<"a">>)}

\* atom (op atom)^k as a token array
Chain(atoms, ops) ==
    [i \in 1..(2 * Len(ops) + 1) |-> IF i % 2 = 1 THEN atoms[(i + 1) \div 2] ELSE ops[i \div 2]]

Chains ==
    UNION {{Chain(atoms, ops) : atoms \in [1..(k + 1) -> AtomTokens],
                                ops \in [1..k -> OperatorTokens]} : k \in 0..MaxOps}

\* PRINT 2 + 3 * 4 - 1  and  PRINT 2 + 3 - 1, of parser.test.ts
TestChains ==
    {<<TokInteger(2), TokPlus, TokInteger(3), TokMultiply, TokInteger(4), TokMinus, TokInteger(1)>>,
     <<TokInteger(2), TokPlus, TokInteger(3), TokMinus, TokInteger(1)>>}

ChainPrograms ==
    {<<TokPrint>> \o c : c \in Chains \cup TestChains}
    \cup {<<TokVariable(<<"b">>), TokEqual>> \o c : c \in Chains \cup TestChains}

TokenPool ==
    {TokPlus, TokMultiply, TokEqual, TokComma, TokEol, TokPrint, TokUnsupported,
     TokInteger(2), TokInteger(0), TokString(<<"s">>), TokString(<<>>), TokVariable(<<"a">>)}

TokenArrays == UNION {[1..k -> TokenPool] : k \in 0..MaxTokens}

TokNewline == Token("EOL", Str(<<"\n">>))

\* the tokens of  $a = 1 / ; / $b = 2 / PRINT $a, $b  of parser.test.ts
EmptyStatementsTest ==
    <<TokNewline, TokVariable(<<"a">>), TokEqual, TokInteger(1), TokNewline, TokEol,
      TokNewline, TokVariable(<<"b">>), TokEqual, TokInteger(2), TokNewline, TokPrint,
      TokVariable(<<"a">>), TokComma, TokVariable(<<"b">>), TokNewline>>

\* the statements of the generated programs with separators
StatementTokens ==
    {<<TokVariable(<<"a">>), TokEqual, TokInteger(2)>>,
     <<TokPrint, TokVariable(<<"a">>), TokComma, TokInteger(2)>>,
     <<TokPrint, TokInteger(2), TokPlus, TokInteger(3)>>,
     <<TokUnsupported>>}

\* the most statements of such a program, and the most EOL tokens before,
\* between and after them
MaxSeparated == 2
MaxGap == 2

Gap(k) == [i \in 1..k |-> TokEol]

\* k statements, with up to MaxGap EOL tokens before, between and after
RECURSIVE SeparatedOf(_)
SeparatedOf(k) ==
    IF k = 0 THEN {Gap(g) : g \in 0..MaxGap}
    ELSE {p \o s \o Gap(g) : p \in SeparatedOf(k - 1), s \in StatementTokens,
                              g \in 0..MaxGap}

SeparatedPrograms ==
    UNION {SeparatedOf(k) : k \in 0..MaxSeparated} \cup {EmptyStatementsTest}

ParserInputs == ChainPrograms \cup TokenArrays \cup SeparatedPrograms

VarA == VariableReference(Str(<<"a">>))
VarB == VariableReference(Str(<<"b">>))
Plus(l, r) == BinaryExpression(l, Str(<<"+">>), r)
Divide(l, r) == BinaryExpression(l, Str(<<"/">>), r)

StatementPool ==
    {AssignmentStatement(Str(<<"a">>), Literal(Num(5))),
     AssignmentStatement(Str(<<"a">>), Literal(Str(<<"h">>))),
     AssignmentStatement(Str(<<"b">>), Literal(Num(0))),
     AssignmentStatement(Str(<<"b">>), Literal(Num(3))),
     AssignmentStatement(Str(<<"b">>), Plus(VarA, Literal(Num(1)))),
     AssignmentStatement(Str(<<"a">>), VarB),
     PrintStatement(<<VarA>>),
     PrintStatement(<<Plus(VarA, VarB)>>),
     PrintStatement(<<Literal(Str(<<"x">>)), VarA, VarB>>),
     PrintStatement(<<Literal(Str(<<"x">>)), Literal(Num(2))>>),
     PrintStatement(<<Divide(VarA, VarB)>>),
     UnsupportedStatement(Str(<<"@", "d">>))}

\* $a = "hello"; $b = "world"; PRINT $a + $b  of the interpreter's tests
TestStatements ==
    {<<AssignmentStatement(Str(<<"a">>), Literal(Str(<<"h", "e", "l", "l", "o">>))),
       AssignmentStatement(Str(<<"b">>), Literal(Str(<<"w", "o", "r", "l", "d">>))),
       PrintStatement(<<Plus(VarA, VarB)>>)>>}

StatementArrays == UNION {[1..k -> StatementPool] : k \in 0..MaxStmts} \cup TestStatements

-----------------------------------------------------------------------------
(* Specifications *)

\* a Parser constructed on a token array
InitParse ==
    /\ lexerKind = "hardcoded"
    /\ input = <<>>
    /\ position = 0
    /\ tokens \in ParserInputs
    /\ currentIndex = 0
    /\ statements = <<>>
    /\ stmtIndex = 0
    /\ variables = EmptyStore
    /\ output = <<>>
    /\ errors = <<>>
    /\ pc = "parse"

NextParse == ParseStep \/ ParseReturn

SpecParse == InitParse /\ [][NextParse]_vars

\* an Interpreter constructed on a statement array
InitInterpret ==
    /\ lexerKind = "hardcoded"
    /\ input = <<>>
    /\ position = 0
    /\ tokens = <<>>
    /\ currentIndex = 0
    /\ statements \in StatementArrays
    /\ stmtIndex = 0
    /\ variables = EmptyStore
    /\ output = <<>>
    /\ errors = <<>>
    /\ pc = "interpret"

NextInterpret == InterpretStep \/ InterpretReturn

SpecInterpret == InitInterpret /\ [][NextInterpret]_vars

\* the characters of the generated inputs
LexAlphabet ==
    {"a", "1", "$", "@", "\"", "\\", "%", " ", "\n", ";", "=", "+", "P", "!"}

\* PRINT $a, $b, "Hello", 123, asf  of lexer.test.ts
InvalidInputTest ==
    <<"P", "R", "I", "N", "T", " ", "$", "a", ",", " ", "$", "b", ",", " ",
      "\"", "H", "e", "l", "l", "o", "\"", ",", " ", "1", "2", "3", ",", " ",
      "a", "s", "f">>

\* PRINT "Hello\"World\""  of lexer.test.ts
EscapedStringTest ==
    <<"P", "R", "I", "N", "T", " ", "\"", "H", "e", "l", "l", "o", "\\", "\"", "W", "o",
      "r", "l", "d", "\\", "\"", "\"">>

\* the input of `should handle whitespace and comments` of lexer.test.ts
WhitespaceCommentTest ==
    <<"\n", " ", " ", " ", " ", " ", " ", "$", "a", " ", "=", " ", "1", "\n", " ", " ",
      " ", " ", " ", " ", "%", " ", "T", "h", "i", "s", " ", "i", "s", " ", "a", " ", "c",
      "o", "m", "m", "e", "n", "t", "\n", " ", " ", " ", " ", " ", " ", "$", "b", " ", "=",
      " ", "2", "\n", " ", " ", " ", " ", " ", " ", "P", "R", "I", "N", "T", " ", "$", "a",
      ",", " ", "$", "b", "\n", " ", " ", " ", " ">>

\* the most characters between the quotes of a generated string literal
MaxString == 3

StringAlphabet == {"a", "\\", "\"", "\n"}

\* a quote, up to MaxString characters, a quote
StringInputs ==
    {<<"\"">> \o body \o <<"\"">> :
        body \in UNION {[1..k -> StringAlphabet] : k \in 0..MaxString}}

\* programs with a line that starts with a percent sign: what precedes the
\* line, the line, its newline (or none), what follows
CommentBefore == {<<>>, <<"1", "\n">>, <<"1", ";", "\n">>, <<"1", " ", "\n">>, <<"=", "\n", "\n">>}
CommentLines == {<<"%">>, <<"%", "a">>, <<" ", "%", "=">>, <<"%", ";", "1">>, <<"%", "%">>, <<"\t", "%", " ", "a">>}
CommentAfter == {<<>>, <<"2">>, <<" ", "2">>, <<"\n", "2">>, <<";">>}
CommentPrograms ==
    {before \o line \o newline \o after :
        before \in CommentBefore, line \in CommentLines,
        newline \in {<<>>, <<"\n">>}, after \in CommentAfter}

\* programs whose lines end in a carriage return and a newline
CarriageReturnPrograms ==
    {before \o line \o <<"\r", "\n">> \o after :
        before \in {<<>>, <<"1", " ">>}, line \in {<<>>, <<"%">>, <<"%", "a">>},
        after \in {<<>>, <<"2">>}}

LexInputs ==
    UNION {[1..k -> LexAlphabet] : k \in 0..MaxInput}
    \cup StringInputs \cup CommentPrograms \cup CarriageReturnPrograms
    \cup {InvalidInputTest, EscapedStringTest, WhitespaceCommentTest}

\* a Lexer of either class constructed on an input
InitLex ==
    /\ lexerKind \in {"hardcoded", "table"}
    /\ input \in LexInputs
    /\ position = 0
    /\ tokens = <<>>
    /\ currentIndex = 0
    /\ statements = <<>>
    /\ stmtIndex = 0
    /\ variables = EmptyStore
    /\ output = <<>>
    /\ errors = <<>>
    /\ pc = "lex"

NextLex == LexStep \/ LexTableStep \/ LexReturn

SpecLex == InitLex /\ [][NextLex]_vars

\* @directive  and  $test_var = "Hello World!"  of the interpreter's tests
DirectiveTest ==
    <<"\n", " ", " ", " ", " ", " ", " ", "@", "d", "i", "r", "e", "c", "t",
      "i", "v", "e", "\n", " ", " ", " ", " ">>
AssignmentTest ==
    <<"$", "t", "e", "s", "t", "_", "v", "a", "r", " ", "=", " ", "\"", "H",
      "e", "l", "l", "o", " ", "W", "o", "r", "l", "d", "!", "\"">>

DirectiveInputs == {<<"@", "d">>, <<"@", "d", "_", "x">>, DirectiveTest}

\* the longest generated literal: digits, or characters between the quotes
MaxLiteral == 2

NameTexts == {<<"a">>, <<"t", "_", "v">>}
Separators == {<<>>, <<" ">>}
IntegerTexts == UNION {[1..k -> {"0", "1", "7"}] : k \in 1..MaxLiteral}
StringTexts == UNION {[1..k -> {"s", " "}] : k \in 0..MaxLiteral}
LiteralTexts == IntegerTexts \cup {<<"\"">> \o t \o <<"\"">> : t \in StringTexts}

\* $name = <literal>
AssignmentInput(name, sep, literal) == <<"$">> \o name \o sep \o <<"=">> \o sep \o literal

AssignmentInputs ==
    {AssignmentInput(name, sep, literal) :
        name \in NameTexts, sep \in Separators, literal \in LiteralTexts}
    \cup {AssignmentTest}

PipelineInputs == DirectiveInputs \cup AssignmentInputs

\* the whole pipeline of main.ts on a program text, with either lexer
InitPipeline ==
    /\ lexerKind \in {"hardcoded", "table"}
    /\ input \in PipelineInputs
    /\ position = 0
    /\ tokens = <<>>
    /\ currentIndex = 0
    /\ statements = <<>>
    /\ stmtIndex = 0
    /\ variables = EmptyStore
    /\ output = <<>>
    /\ errors = <<>>
    /\ pc = "lex"

NextPipeline ==
    \/ LexStep
    \/ LexTableStep
    \/ LexReturn
    \/ ParseStep
    \/ ParseReturn
    \/ InterpretStep
    \/ InterpretReturn

SpecPipeline == InitPipeline /\ [][NextPipeline]_vars

-----------------------------------------------------------------------------
(* Whole programs: the inputs of the interpreter's tests, and generated ones *)

\* the inputs of the interpreter's tests
MultiplePrintTest ==
    <<"\n", " ", " ", " ", " ", " ", " ", "$", "a", " ", "=", " ", "\"", "H", "e", "l",
      "l", "o", "\"", "\n", " ", " ", " ", " ", " ", " ", "$", "b", " ", "=", " ", "\"",
      "W", "o", "r", "l", "d", "\"", "\n", " ", " ", " ", " ", " ", " ", "P", "R", "I",
      "N", "T", " ", "$", "a", ",", " ", "$", "b", "\n", " ", " ", " ", " ">>

ComplexExpressionTest ==
    <<"\n", " ", " ", " ", " ", " ", " ", "$", "a", " ", "=", " ", "2", "\n", " ", " ",
      " ", " ", " ", " ", "$", "b", " ", "=", " ", "3", "\n", " ", " ", " ", " ", " ", " ",
      "$", "c", " ", "=", " ", "$", "a", " ", "+", " ", "$", "b", " ", "*", " ", "4", " ",
      "-", " ", "1", "\n", " ", " ", " ", " ", " ", " ", "P", "R", "I", "N", "T", " ", "$",
      "c", "\n", " ", " ", " ", " ">>

SequenceTest ==
    <<"\n", " ", " ", " ", " ", " ", " ", "$", "a", " ", "=", " ", "1", "\n", " ", " ",
      " ", " ", " ", " ", "$", "b", " ", "=", " ", "2", "\n", " ", " ", " ", " ", " ", " ",
      "P", "R", "I", "N", "T", " ", "$", "a", ",", " ", "$", "b", "\n", " ", " ", " ", " ",
      " ", " ", "$", "c", " ", "=", " ", "$", "a", " ", "+", " ", "$", "b", "\n", " ", " ",
      " ", " ", " ", " ", "P", "R", "I", "N", "T", " ", "$", "c", "\n", " ", " ", " ", " ">>

ArithmeticTest ==
    <<"\n", " ", " ", " ", " ", " ", " ", "$", "a", " ", "=", " ", "5", "\n", " ", " ",
      " ", " ", " ", " ", "$", "b", " ", "=", " ", "3", "\n", " ", " ", " ", " ", " ", " ",
      "P", "R", "I", "N", "T", " ", "$", "a", " ", "+", " ", "$", "b", "\n", " ", " ", " ",
      " ", " ", " ", "P", "R", "I", "N", "T", " ", "$", "a", " ", "-", " ", "$", "b", "\n",
      " ", " ", " ", " ", " ", " ", "P", "R", "I", "N", "T", " ", "$", "a", " ", "*", " ",
      "$", "b", "\n", " ", " ", " ", " ", " ", " ", "P", "R", "I", "N", "T", " ", "$", "a",
      " ", "/", " ", "$", "b", "\n", " ", " ", " ", " ">>

LiteralsTest ==
    <<"\n", " ", " ", " ", " ", " ", " ", "P", "R", "I", "N", "T", " ", "\"", "H", "e",
      "l", "l", "o", "\"", ",", " ", "1", "2", "3", "\n", " ", " ", " ", " ">>

ReassignmentTest ==
    <<"\n", " ", " ", " ", " ", " ", " ", "$", "a", " ", "=", " ", "1", "\n", " ", " ",
      " ", " ", " ", " ", "$", "a", " ", "=", " ", "2", "\n", " ", " ", " ", " ", " ", " ",
      "P", "R", "I", "N", "T", " ", "$", "a", "\n", " ", " ", " ", " ">>

DivisionByZeroTest ==
    <<"\n", " ", " ", " ", " ", " ", " ", "$", "a", " ", "=", " ", "1", "0", "\n", " ",
      " ", " ", " ", " ", " ", "$", "b", " ", "=", " ", "0", "\n", " ", " ", " ", " ", " ",
      " ", "P", "R", "I", "N", "T", " ", "$", "a", " ", "/", " ", "$", "b", "\n", " ", " ",
      " ", " ">>

TestPrograms ==
    {MultiplePrintTest, ComplexExpressionTest, SequenceTest,
     ArithmeticTest, LiteralsTest, ReassignmentTest,
     DivisionByZeroTest}

\* the statements of the generated programs
StatementTexts ==
    {<<"$", "a", "=", "1">>,
     <<"$", "a", "=", "2">>,
     <<"$", "b", "=", "0">>,
     <<"$", "b", "=", "\"", "\"">>,
     <<"$", "b", "=", "$", "a", "-", "$", "a">>,
     <<"$", "b", "=", "$", "a", "+", "1">>,
     <<"P", "R", "I", "N", "T", " ", "$", "a", ",", "$", "b">>,
     <<"P", "R", "I", "N", "T", " ", "$", "a", "/", "$", "b">>}

\* the most statements of a generated program
MaxProgram == 3

\* k statements separated by `;`
RECURSIVE ProgramsOf(_)
ProgramsOf(k) ==
    IF k = 1 THEN StatementTexts
    ELSE {p \o <<";">> \o s : p \in ProgramsOf(k - 1), s \in StatementTexts}

\* PRINT 2+3*4-1, PRINT 9 / 3 and PRINT 3 * 9 of main.ts, PRINT 2 + 3 - 1 of
\* parser.test.ts
PrecedenceText == <<"P", "R", "I", "N", "T", " ", "2", "+", "3", "*", "4", "-", "1">>
AssociativityText ==
    <<"P", "R", "I", "N", "T", " ", "2", " ", "+", " ", "3", " ", "-", " ", "1">>

ExpressionTests ==
    {PrecedenceText,
     AssociativityText,
     <<"P", "R", "I", "N", "T", " ", "9", " ", "/", " ", "3">>,
     <<"P", "R", "I", "N", "T", " ", "3", " ", "*", " ", "9">>}

\* the integers and operators of the generated expressions
ExpressionLeaves == {<<"2">>, <<"3">>, <<"5">>}
ExpressionOperators == {<<"+">>, <<"-">>, <<"*">>, <<"/">>}

\* the most operators of a generated expression
MaxExpression == 2

\* integer (operator integer)^k
RECURSIVE ExpressionsOf(_)
ExpressionsOf(k) ==
    IF k = 0 THEN ExpressionLeaves
    ELSE {e \o o \o l : e \in ExpressionsOf(k - 1), o \in ExpressionOperators,
                         l \in ExpressionLeaves}

ExpressionPrograms ==
    {<<"P", "R", "I", "N", "T", " ">> \o e : e \in UNION {ExpressionsOf(k) : k \in 1..MaxExpression}}
    \cup ExpressionTests

ProgramInputs ==
    UNION {ProgramsOf(k) : k \in 1..MaxProgram} \cup TestPrograms \cup ExpressionPrograms

\* the whole pipeline of main.ts on a program, with either lexer
InitPrograms ==
    /\ lexerKind \in {"hardcoded", "table"}
    /\ input \in ProgramInputs
    /\ position = 0
    /\ tokens = <<>>
    /\ currentIndex = 0
    /\ statements = <<>>
    /\ stmtIndex = 0
    /\ variables = EmptyStore
    /\ output = <<>>
    /\ errors = <<>>
    /\ pc = "lex"

SpecPrograms == InitPrograms /\ [][NextPipeline]_vars


-----------------------------------------------------------------------------
(* Expression trees of operator chains *)

IsAtomToken(t) == t.type \in {"VARIABLE", "STRING", "INTEGER"}
IsOperatorToken(t) == t.type \in {"PLUS", "MINUS", "MULTIPLY", "DIVISION"}
IsAdditive(t) == t.type \in {"PLUS", "MINUS"}
IsMultiplicative(t) == t.type \in {"MULTIPLY", "DIVISION"}

\* atom (op atom)*
IsChain(c) ==
    /\ Len(c) % 2 = 1
    /\ \A i \in 1..Len(c) : IF i % 2 = 1 THEN IsAtomToken(c[i]) ELSE IsOperatorToken(c[i])

AtomNode(t) ==
    IF t.type = "VARIABLE" THEN VariableReference(t.value) ELSE Literal(t.value)

Max(S) == CHOOSE m \in S : \A x \in S : x <= m

\* the tree the grammar  sum ::= sum (+|-) product | product,
\* product ::= product ( * | / ) atom | atom  gives a chain: its root is the
\* last + or -, or the last operator when the chain has no + or -
RECURSIVE GrammarTree(_)
GrammarTree(c) ==
    IF Len(c) = 1 THEN AtomNode(c[1])
    ELSE LET additive == {i \in 1..Len(c) : i % 2 = 0 /\ IsAdditive(c[i])}
             root == IF additive # {} THEN Max(additive) ELSE Len(c) - 1
         IN  BinaryExpression(GrammarTree(SubSeq(c, 1, root - 1)), c[root].value,
                              GrammarTree(SubSeq(c, root + 1, Len(c))))

\* ((a op1 b) op2 c) ...: the operators applied from left to right
RECURSIVE LeftFold(_)
LeftFold(c) ==
    IF Len(c) = 1 THEN AtomNode(c[1])
    ELSE BinaryExpression(LeftFold(SubSeq(c, 1, Len(c) - 2)), c[Len(c) - 1].value,
                          AtomNode(c[Len(c)]))

\* the statement array parse() is to return for `PRINT chain` or `$v = chain`
ChainStatements(toks, tree) ==
    IF toks[1].type = "PRINT"
    THEN <<PrintStatement(<<tree>>)>>
    ELSE <<AssignmentStatement(toks[1].value, tree)>>

\* the chain of a token array `PRINT chain` or `$v = chain`
ChainOf(toks) ==
    IF toks[1].type = "PRINT" THEN Tail(toks) ELSE Tail(Tail(toks))

IsChainProgram(toks) ==
    /\ Len(toks) >= 2
    /\ \/ toks[1].type = "PRINT"
       \/ Len(toks) >= 3 /\ toks[1].type = "VARIABLE" /\ toks[2].type = "EQUAL"
    /\ IsChain(ChainOf(toks))

Parsed == pc = "interpret"

PrecedenceTest == <<TokPrint, TokInteger(2), TokPlus, TokInteger(3), TokMultiply,
                    TokInteger(4), TokMinus, TokInteger(1)>>

PrecedenceTestTree ==
    BinaryExpression(
        BinaryExpression(Literal(Num(2)), Str(<<"+">>),
                         BinaryExpression(Literal(Num(3)), Str(<<"*">>), Literal(Num(4)))),
        Str(<<"-">>), Literal(Num(1)))

-----------------------------------------------------------------------------
(* Claims *)

\* C1: for every token array `PRINT chain` or `$v = chain`, chain being
\* atom (op atom)* with op in {+,-,*,/}, parse() returns the one statement
\* whose expression is the tree in which * and / bind tighter than + and -
\* (the grammar's tree of the chain), with no error reported; and
\* `PRINT 2 + 3 * 4 - 1` gives ((2 + (3 * 4)) - 1).
C1_Precedence ==
    Parsed /\ IsChainProgram(tokens) =>
        /\ statements = ChainStatements(tokens, GrammarTree(ChainOf(tokens)))
        /\ errors = <<>>
        /\ tokens = PrecedenceTest => statements = <<PrintStatement(<<PrecedenceTestTree>>)>>

C1_Witness ==
    /\ Parsed
    /\ tokens = PrecedenceTest
    /\ statements = <<PrintStatement(<<PrecedenceTestTree>>)>>

IsEqualPrecedenceChain(c) ==
    /\ IsChain(c)
    /\ \/ \A i \in 1..Len(c) : i % 2 = 0 => IsAdditive(c[i])
       \/ \A i \in 1..Len(c) : i % 2 = 0 => IsMultiplicative(c[i])

AssociativityTest == <<TokPrint, TokInteger(2), TokPlus, TokInteger(3), TokMinus, TokInteger(1)>>

\* C2: a chain whose operators all have the same precedence (all in {+,-} or
\* all in {*,/}) is folded from left to right: the expression parse() returns
\* for it is ((a op1 b) op2 c) ..., so `2 + 3 - 1` gives ((2 + 3) - 1).
C2_LeftAssociative ==
    Parsed /\ IsChainProgram(tokens) /\ IsEqualPrecedenceChain(ChainOf(tokens)) =>
        statements = ChainStatements(tokens, LeftFold(ChainOf(tokens)))

C2_Witness ==
    /\ Parsed
    /\ tokens = AssociativityTest
    /\ statements =
         <<PrintStatement(<<BinaryExpression(
               BinaryExpression(Literal(Num(2)), Str(<<"+">>), Literal(Num(3))),
               Str(<<"-">>), Literal(Num(1)))>>)>>


\* the lines error() wrote in a step
NewErrors == SubSeq(errors', Len(errors) + 1, Len(errors'))

Reported(lines, kind) == \E i \in 1..Len(lines) : lines[i].kind = kind

\* C3: once lex() has reported a character no rule accepts, naming the
\* character and its zero-based offset, lexing is over: no token is pushed,
\* nothing more is scanned or reported, and no token array is returned. For
\* both lexers.
C3_UnexpectedSymbolAborts ==
    [][/\ \A i \in 1..Len(NewErrors) :
             (NewErrors[i].kind = "unexpected symbol") =>
                 (NewErrors[i].index = position /\ NewErrors[i].arg = CharAt(input, position))
       /\ (pc = "lex" /\ Reported(errors, "unexpected symbol")) =>
             (UNCHANGED <<tokens, position, errors>> /\ pc' # "parse")]_vars

\* C4: after the first error reported during interpret(), no later statement
\* is executed: no output line is added and no binding is written.
C4_NoStatementAfterError ==
    [][(pc = "interpret" /\ errors # <<>>) =>
           (stmtIndex' = stmtIndex /\ output' = output /\ variables' = variables)]_vars

\* parse() is at a VARIABLE token that starts a statement and that no EQUAL
\* token follows
VariableWithoutEqual ==
    /\ pc = "parse"
    /\ currentIndex < Len(tokens)
    /\ tokens[currentIndex + 1].type = "VARIABLE"
    /\ ~(currentIndex + 1 < Len(tokens) /\ tokens[currentIndex + 2].type = "EQUAL")

\* C5: when the VARIABLE token that starts a statement is not immediately
\* followed by an EQUAL token, parse() reports a syntax error and emits no
\* AssignmentStatement for it (it takes no other token for the `=`).
C5_AssignmentRequiresEqual ==
    [][VariableWithoutEqual =>
           (statements' = statements /\ Reported(NewErrors, "unexpected token"))]_vars

\* parse() is at a token that starts no statement and is no separator
AtUnexpectedToken ==
    /\ pc = "parse"
    /\ currentIndex < Len(tokens)
    /\ tokens[currentIndex + 1].type \notin {"VARIABLE", "PRINT", "UNSUPPORTED", "EOL"}

\* C6: once the parser has reported an unexpected token (at the start of a
\* statement or in parseAtom), parsing is over: no statement is emitted
\* afterwards and no statement array is returned.
C6_SyntaxErrorStopsParsing ==
    [][/\ AtUnexpectedToken => Reported(NewErrors, "unexpected token")
       /\ (pc = "parse" /\ Reported(errors, "unexpected token"))
             => (statements' = statements /\ pc' # "interpret")]_vars

\* an expression that references a name with no binding in the store
RECURSIVE ReferencesUnbound(_, _)
ReferencesUnbound(expr, store) ==
    CASE expr.type = "VariableReference" -> expr.varname \notin DOMAIN store
      [] expr.type = "BinaryExpression" ->
           ReferencesUnbound(expr.left, store) \/ ReferencesUnbound(expr.right, store)
      [] OTHER -> FALSE

\* interpret() is about to execute a PrintStatement one of whose expressions
\* satisfies P in the current store, and executes it
ExecutesPrintWith(P(_, _)) ==
    /\ pc = "interpret"
    /\ stmtIndex < Len(statements)
    /\ stmtIndex' = stmtIndex + 1
    /\ statements[stmtIndex + 1].type = "PrintStatement"
    /\ \E i \in 1..Len(statements[stmtIndex + 1].expressions) :
           P(statements[stmtIndex + 1].expressions[i], variables)

\* C7: evaluating a reference to a name with no binding reports 'variable is
\* not defined', and a PrintStatement containing such a reference produces no
\* output line.
C7_UndefinedVariablePrintsNothing ==
    [][ExecutesPrintWith(ReferencesUnbound) =>
           (Reported(NewErrors, "variable is not defined") /\ output' = output)]_vars

\* an expression with a BinaryExpression one of whose operands does not
\* evaluate to a number
RECURSIVE HasNonNumericOperand(_, _)
HasNonNumericOperand(expr, store) ==
    /\ expr.type = "BinaryExpression"
    /\ \/ typeof(evaluateExpression(expr.left, store).value) # "number"
       \/ typeof(evaluateExpression(expr.right, store).value) # "number"
       \/ HasNonNumericOperand(expr.left, store)
       \/ HasNonNumericOperand(expr.right, store)

\* C8: a BinaryExpression fails with 'operands must be numbers' unless both
\* operands evaluate to numbers, and then yields no value: a PrintStatement
\* with such an expression (as in $a = "hello"; $b = "world"; PRINT $a + $b)
\* reports the error and prints nothing.
C8_NonNumericOperandsPrintNothing ==
    [][ExecutesPrintWith(HasNonNumericOperand) =>
           (Reported(NewErrors, "operands must be numbers") /\ output' = output)]_vars

Finished == pc = "done"

\* the text of a program without its blanks
NonBlank(in) == SelectSeq(in, LAMBDA c : c \notin {" ", "\t", "\n"})
WithoutEol(toks) == SelectSeq(toks, LAMBDA t : t.type # "EOL")

\* C9: a program that is one `@name` directive lexes to one UNSUPPORTED token
\* carrying the text `@name`, parses to one unsupported-statement node
\* carrying the same text, and executing it reports the error
\* `Interpreter: unsupported statement: @name`.
C9_UnsupportedDirectiveNamed ==
    Finished /\ input \in DirectiveInputs =>
        /\ WithoutEol(tokens) = <<Token("UNSUPPORTED", Str(NonBlank(input)))>>
        /\ statements = <<UnsupportedStatement(Str(NonBlank(input)))>>
        /\ errors = <<Err("Interpreter", "unsupported statement", Str(NonBlank(input)), -1)>>

FirstIndex(seq, S) ==
    CHOOSE i \in 1..Len(seq) : seq[i] \in S /\ \A j \in 1..(i - 1) : seq[j] \notin S

\* the name and the literal of a program text `$name = <literal>`
NameOf(in) == SubSeq(in, 2, FirstIndex(in, {" ", "="}) - 1)
LiteralTextOf(in) ==
    LET e == FirstIndex(in, {"="})
    IN  SubSeq(in, IF in[e + 1] = " " THEN e + 2 ELSE e + 1, Len(in))

RECURSIVE DecimalValue(_)
DecimalValue(text) ==
    IF text = <<>> THEN 0
    ELSE 10 * DecimalValue(SubSeq(text, 1, Len(text) - 1)) + DigitValue(text[Len(text)])

\* the value a literal denotes: the characters between the quotes, or the
\* base-10 integer
LiteralValue(text) ==
    IF text[1] = "\""
    THEN Str(SubSeq(text, 2, Len(text) - 1))
    ELSE Num(DecimalValue(text))

AssignedName == Str(NameOf(input))
AssignedValue == LiteralValue(LiteralTextOf(input))

ParsedAssignment ==
    statements = <<AssignmentStatement(AssignedName, Literal(AssignedValue))>>

\* C10 as stated: for every program `$name = <literal>`, the literal any
\* string (the empty one included) or any non-negative integer (0 included),
\* parse() yields exactly one AssignmentStatement whose value is the Literal,
\* and after interpret() the store maps name to the literal's value.
C10_EveryLiteralStored ==
    Finished /\ input \in AssignmentInputs =>
        /\ ParsedAssignment
        /\ variables = [k \in {AssignedName} |-> AssignedValue]

\* C10 amended: for every program `$name = <literal>`, parse() yields exactly
\* one AssignmentStatement whose value is the Literal; after interpret() the
\* store maps name to the literal's value when the literal is a non-empty
\* string or a non-zero integer, and when it is the empty string or 0,
\* 'error evaluating expression' is reported and name stays unbound.
C10_TruthyLiteralStored ==
    Finished /\ input \in AssignmentInputs =>
        /\ ParsedAssignment
        /\ IF AssignedValue \notin {Str(<<>>), Num(0)}
           THEN /\ variables = [k \in {AssignedName} |-> AssignedValue]
                /\ errors = <<>>
           ELSE /\ variables = EmptyStore
                /\ errors = <<Err("Interpreter", "error evaluating expression",
                                  Undefined, -1)>>

C10_Witness ==
    /\ Finished
    /\ input = AssignmentTest
    /\ DOMAIN variables = {Str(<<"t", "e", "s", "t", "_", "v", "a", "r">>)}
    /\ variables[Str(<<"t", "e", "s", "t", "_", "v", "a", "r">>)]
         = Str(<<"H", "e", "l", "l", "o", " ", "W", "o", "r", "l", "d", "!">>)

-----------------------------------------------------------------------------
(* Assignments and output of whole programs *)

\* interpret() is about to execute an AssignmentStatement, and executes it
ExecutesAssignment ==
    /\ pc = "interpret"
    /\ stmtIndex < Len(statements)
    /\ stmtIndex' = stmtIndex + 1
    /\ statements[stmtIndex + 1].type = "AssignmentStatement"

\* the value of its right-hand side in the current store
AssignedResult == evaluateExpression(statements[stmtIndex + 1].value, variables).value

EvaluationError == Err("Interpreter", "error evaluating expression", Undefined, -1)

AssignmentsTo(name) ==
    {i \in 1..stmtIndex : /\ statements[i].type = "AssignmentStatement"
                          /\ statements[i].varname = name}

\* those of them that assign a literal which is stored
SuccessfulAssignments(name) ==
    {i \in AssignmentsTo(name) : /\ statements[i].value.type = "Literal"
                                 /\ statements[i].value.value \notin {Num(0), Str(<<>>)}}

OnlyLiteralsAssigned(name) ==
    \A i \in AssignmentsTo(name) : statements[i].value.type = "Literal"

Last(S) == CHOOSE i \in S : \A j \in S : j <= i

ProgramNames == {Str(<<"a">>), Str(<<"b">>), Str(<<"c">>)}

\* C12: once two or more successful assignments to a name have been executed,
\* the store binds the name to the value of the latest of them (names that are
\* only assigned literals);  $a = 1; $a = 2; PRINT $a  ends with the single
\* binding a = 2 and prints `2`.
C12_LaterAssignmentWins ==
    /\ pc \in {"interpret", "done"} =>
           \A name \in ProgramNames :
               (OnlyLiteralsAssigned(name) /\ Cardinality(SuccessfulAssignments(name)) >= 2) =>
                   /\ name \in DOMAIN variables
                   /\ variables[name] = statements[Last(SuccessfulAssignments(name))].value.value
    /\ (Finished /\ input = ReassignmentTest) =>
           /\ variables = [k \in {Str(<<"a">>)} |-> Num(2)]
           /\ output = << <<"2">> >>
           /\ errors = <<>>

C12_Witness ==
    /\ Finished
    /\ input = ReassignmentTest
    /\ Cardinality(SuccessfulAssignments(Str(<<"a">>))) = 2
    /\ output = << <<"2">> >>

\* the stored literal assignments to `name` among the statements before the i-th
StoredBefore(name, i) ==
    {j \in 1..(i - 1) : /\ statements[j].type = "AssignmentStatement"
                        /\ statements[j].varname = name
                        /\ statements[j].value.type = "Literal"
                        /\ statements[j].value.value \notin {Num(0), Str(<<>>)}}

\* before the i-th statement, `name` is only assigned literals
LiteralsBefore(name, i) ==
    \A j \in 1..(i - 1) :
        (statements[j].type = "AssignmentStatement" /\ statements[j].varname = name) =>
            statements[j].value.type = "Literal"

\* the binding the source order gives `name` just before the i-th statement
ObservedValue(name, i) ==
    IF StoredBefore(name, i) = {} THEN Undefined
    ELSE statements[Last(StoredBefore(name, i))].value.value

\* the PrintStatements among the first i statements
PrintsExecuted(i) == Cardinality({j \in 1..i : statements[j].type = "PrintStatement"})

\* a PRINT of variables that, before it, are only assigned literals
IsPrintOfLiteralVariables(i) ==
    /\ statements[i].type = "PrintStatement"
    /\ \A k \in 1..Len(statements[i].expressions) :
           /\ statements[i].expressions[k].type = "VariableReference"
           /\ LiteralsBefore(statements[i].expressions[k].varname, i)

\* C13: interpret() has written one output line per PrintStatement executed,
\* in their order, and the line of a PRINT of variables shows the bindings made
\* by the assignments before it in the source and by no later one;
\* $a = 1; $b = 2; PRINT $a, $b; $c = $a + $b; PRINT $c  prints `1 2`, then `3`.
C13_SourceOrder ==
    /\ pc \in {"interpret", "done"} =>
           /\ Len(output) = PrintsExecuted(stmtIndex)
           /\ \A i \in 1..stmtIndex :
                  IsPrintOfLiteralVariables(i) =>
                      output[PrintsExecuted(i)] =
                          Join(Defined([k \in 1..Len(statements[i].expressions) |->
                                           ObservedValue(statements[i].expressions[k].varname, i)]))
    /\ (Finished /\ input = SequenceTest) =>
           /\ output = << <<"1", " ", "2">>, <<"3">> >>
           /\ errors = <<>>

C13_Witness ==
    /\ Finished
    /\ input = SequenceTest
    /\ Len(statements) = 5
    /\ IsPrintOfLiteralVariables(3)
    /\ output = << <<"1", " ", "2">>, <<"3">> >>

\* interpret() is about to execute a PrintStatement, and executes it
ExecutesPrint ==
    /\ pc = "interpret"
    /\ stmtIndex < Len(statements)
    /\ stmtIndex' = stmtIndex + 1
    /\ statements[stmtIndex + 1].type = "PrintStatement"

\* the values of its expressions in the current store, in list order
PrintedValues ==
    [k \in 1..Len(statements[stmtIndex + 1].expressions) |->
        evaluateExpression(statements[stmtIndex + 1].expressions[k], variables).value]

\* C14: executing a PrintStatement with n expressions appends one line, made of
\* the n values of its expressions in list order joined by single spaces: no
\* expression goes without its value in the line.
C14_PrintJoinsAllValues ==
    [][ExecutesPrint =>
           /\ \A k \in 1..Len(PrintedValues) : PrintedValues[k] # Undefined
           /\ output' = Append(output, Join(PrintedValues))]_vars

-----------------------------------------------------------------------------
(* String literals, comments and separators in the two lexers *)

\* the text between the quotes of a string literal: characters other than
\* `"` and `\`, and backslashes each followed by one character
RECURSIVE IsEscapedText(_)
IsEscapedText(body) ==
    IF body = <<>> THEN TRUE
    ELSE IF body[1] = "\\"
    THEN Len(body) >= 2 /\ IsEscapedText(SubSeq(body, 3, Len(body)))
    ELSE body[1] # "\"" /\ IsEscapedText(Tail(body))

\* the same text with the backslash of each escape removed
RECURSIVE Decoded(_)
Decoded(body) ==
    IF body = <<>> THEN <<>>
    ELSE IF body[1] = "\\"
    THEN <<body[2]>> \o Decoded(SubSeq(body, 3, Len(body)))
    ELSE <<body[1]>> \o Decoded(Tail(body))

Body(in) == SubSeq(in, 2, Len(in) - 1)

\* the input is one string literal, closed by its last character
IsStringLiteral(in) ==
    /\ Len(in) >= 2
    /\ in[1] = "\"" /\ in[Len(in)] = "\""
    /\ IsEscapedText(Body(in))

\* C16: with either lexer, an input that is one string literal lexes, without
\* error, to one STRING token whose value is the text between the quotes with
\* the backslash of every escape removed; PRINT "Hello\"World\"" lexes to
\* PRINT and the STRING Hello"World".
C16_StringDecoding ==
    /\ IsStringLiteral(input) =>
           /\ errors = <<>>
           /\ tokens \in {<<>>, <<TokString(Decoded(Body(input)))>>}
           /\ pc = "parse" => tokens # <<>>
    /\ (pc = "parse" /\ input = EscapedStringTest) =>
           tokens = <<TokPrint,
                      TokString(<<"H", "e", "l", "l", "o", "\"", "W", "o", "r", "l", "d", "\"">>)>>

\* the text after an opening quote has a `"` that no backslash escapes
RECURSIVE HasClosingQuote(_)
HasClosingQuote(text) ==
    IF text = <<>> THEN FALSE
    ELSE IF text[1] = "\\" THEN HasClosingQuote(SubSeq(text, 3, Len(text)))
    ELSE text[1] = "\"" \/ HasClosingQuote(Tail(text))

\* the input is a string literal that is not closed before the end of the input
IsUnterminated(in) ==
    /\ in # <<>>
    /\ in[1] = "\""
    /\ ~HasClosingQuote(Tail(in))

\* C17: with either lexer, an input that opens a string literal and never
\* closes it yields no STRING token, and lex() does not return without having
\* reported an error.
C17_UnterminatedStringRejected ==
    IsUnterminated(input) =>
        /\ \A i \in 1..Len(tokens) : tokens[i].type # "STRING"
        /\ pc = "parse" => errors # <<>>

\* the 1-based indices at which the lines of `in` start
LineStarts(in) == {s \in 1..Len(in) : s = 1 \/ in[s - 1] = "\n"}

\* the index of the newline that ends the line starting at s, or of the last
\* character of the input
LineEnd(in, s) ==
    IF \E e \in s..Len(in) : in[e] = "\n"
    THEN CHOOSE e \in s..Len(in) : in[e] = "\n" /\ \A j \in s..(e - 1) : in[j] # "\n"
    ELSE Len(in)

\* the first character of the line starting at s that is not a space or a tab
\* is `%`
IsCommentLine(in, s) ==
    \E k \in s..LineEnd(in, s) :
        /\ in[k] = "%"
        /\ \A j \in s..(k - 1) : in[j] \in {" ", "\t"}

\* the input with the line starting at s, newline included, removed
WithoutLine(in, s) == SubSeq(in, 1, s - 1) \o SubSeq(in, LineEnd(in, s) + 1, Len(in))


HasNoQuote(in) == \A i \in 1..Len(in) : in[i] # "\""

\* C18: with either lexer, for a program without string literals, the tokens
\* lex() returns are those it returns for the program with any one of its
\* `%` lines, newline included, removed: the line contributes no token and
\* changes no EOL.
C18_CommentLineRemovable ==
    (pc = "parse" /\ HasNoQuote(input)) =>
        \A s \in LineStarts(input) :
            IsCommentLine(input, s) =>
                tokens = lex(lexerKind, WithoutLine(input, s)).tokens


\* the `\n` and `;` of the input, in order
SeparatorsOf(in) == SelectSeq(in, LAMBDA c : c \in {"\n", ";"})

\* the characters of the EOL tokens, in order
EolCharacters(toks) ==
    LET eols == SelectSeq(toks, LAMBDA t : t.type = "EOL")
    IN  [i \in 1..Len(eols) |-> eols[i].value.s[1]]

\* the input has no string literal and no comment
HasNoQuoteOrComment(in) == \A i \in 1..Len(in) : in[i] \notin {"\"", "%"}

\* C19: with either lexer, in a program without string literals and comments
\* that lexes without error, the EOL tokens are, one for one and in order, the
\* `\n` and `;` of the input, and an input of spaces and tabs only gives no
\* token.
C19_SeparatorsGiveEol ==
    (pc = "parse" /\ errors = <<>> /\ HasNoQuoteOrComment(input)) =>
        /\ EolCharacters(tokens) = SeparatorsOf(input)
        /\ (\A i \in 1..Len(input) : input[i] \in {" ", "\t"}) => tokens = <<>>


\* the characters the two lexers are compared on
ComparedAlphabet ==
    Letters \cup Digits
    \cup {"_", "$", "@", "\"", "\\", "%", " ", "\t", "\n", ";", "=", ",", "+", "-", "*", "/"}

\* C20: for every input over ComparedAlphabet, the hand-written Lexer and the
\* table-driven Lexer with lexerRules either both lex it without error to the
\* same tokens, or both report an error, the first one at the same offset.
C20_LexersAgree ==
    (pc = "parse" /\ lexerKind = "hardcoded"
       /\ \A i \in 1..Len(input) : input[i] \in ComparedAlphabet) =>
        LET table == lex("table", input)
        IN  \/ errors = <<>> /\ table.errs = <<>> /\ tokens = table.tokens
            \/ errors # <<>> /\ table.errs # <<>> /\ errors[1].index = table.errs[1].index


-----------------------------------------------------------------------------
(* The value of an expression over integers *)

\* the leaves of the tree are integers: integer literals, and variables
\* bound to integers
RECURSIVE IsIntegerTree(_, _)
IsIntegerTree(expr, store) ==
    CASE expr.type = "Literal" -> expr.value.t = "number" /\ expr.value.d = 1
      [] expr.type = "VariableReference" ->
           /\ expr.varname \in DOMAIN store
           /\ store[expr.varname].t = "number"
           /\ store[expr.varname].d = 1
      [] expr.type = "BinaryExpression" ->
           IsIntegerTree(expr.left, store) /\ IsIntegerTree(expr.right, store)
      [] OTHER -> FALSE

IntegerResult(defined, n) == [defined |-> defined, n |-> n]

\* the value of a tree over integers by integer arithmetic, defined when
\* every division in it has a divisor other than 0 and leaves no remainder
RECURSIVE IntegerValue(_, _)
IntegerValue(expr, store) ==
    CASE expr.type = "Literal" -> IntegerResult(TRUE, expr.value.n)
      [] expr.type = "VariableReference" -> IntegerResult(TRUE, store[expr.varname].n)
      [] OTHER ->
           LET l == IntegerValue(expr.left, store)
               r == IntegerValue(expr.right, store)
           IN  IF ~l.defined \/ ~r.defined THEN IntegerResult(FALSE, 0)
               ELSE CASE expr.operator = Str(<<"+">>) -> IntegerResult(TRUE, l.n + r.n)
                      [] expr.operator = Str(<<"-">>) -> IntegerResult(TRUE, l.n - r.n)
                      [] expr.operator = Str(<<"*">>) -> IntegerResult(TRUE, l.n * r.n)
                      [] OTHER ->
                           IF r.n = 0 \/ Abs(l.n) % Abs(r.n) # 0 THEN IntegerResult(FALSE, 0)
                           ELSE IntegerResult(TRUE, Sign(l.n) * Sign(r.n)
                                                    * (Abs(l.n) \div Abs(r.n)))

\* an integer in decimal digits
IntegerText(n) == (IF n < 0 THEN <<"-">> ELSE <<>>) \o NatToChars(Abs(n))

\* a rational: sign * n / d, n and d naturals of any size
Exact(sign, n, d) == [sign |-> IF n = <<>> THEN 0 ELSE sign, n |-> n, d |-> d]

\* the rational a finite number is
ExactOf(v) ==
    LET x == Parts(v)
    IN  Exact(x.sign, TimesPower(x.m, 2, -x.p), TimesPower(<<1>>, 2, x.p))

ExactSum(a, b) ==
    LET x == Mul(a.n, b.d)
        y == Mul(b.n, a.d)
        d == Mul(a.d, b.d)
    IN  IF a.sign = b.sign \/ a.sign = 0 \/ b.sign = 0
        THEN Exact(IF a.sign = 0 THEN b.sign ELSE a.sign, Add(x, y), d)
        ELSE IF Less(x, y) THEN Exact(b.sign, Sub(y, x), d)
        ELSE Exact(a.sign, Sub(x, y), d)

ExactDifference(a, b) == ExactSum(a, [b EXCEPT !.sign = -b.sign])
ExactProduct(a, b) == Exact(a.sign * b.sign, Mul(a.n, b.n), Mul(a.d, b.d))
ExactQuotient(a, b) == Exact(a.sign * b.sign, Mul(a.n, b.d), Mul(a.d, b.n))

\* left operator right, without rounding
ExactResult(operator, left, right) ==
    CASE operator = Str(<<"+">>) -> ExactSum(ExactOf(left), ExactOf(right))
      [] operator = Str(<<"-">>) -> ExactDifference(ExactOf(left), ExactOf(right))
      [] operator = Str(<<"*">>) -> ExactProduct(ExactOf(left), ExactOf(right))
      [] OTHER -> ExactQuotient(ExactOf(left), ExactOf(right))

\* The finite number v is the number nearest to the rational e: none of the
\* numbers with MantissaBits bits of significand is nearer, and of two
\* equally near it is the one with the even significand. (Half the gap to
\* the next number is 2^-(p + shift + 1), and half of that below a power of
\* two.)
IsNearest(v, e) ==
    LET x == Parts(v)
        shift == MantissaBits - BitLength(x.m)
        a == Mul(e.n, TimesPower(<<1>>, 2, x.p))
        b == Mul(TimesPower(x.m, 2, -x.p), e.d)
        below == Less(a, b)
        k == x.p + shift + 1 + (IF below /\ Reduced(x.m, 0).m = <<1>> THEN 1 ELSE 0)
        distance == TimesPower(IF below THEN Sub(b, a) ELSE Sub(a, b), 2, k)
        half == TimesPower(Mul(e.d, TimesPower(<<1>>, 2, x.p)), 2, -k)
    IN  IF x.sign = 0 \/ e.sign = 0 THEN x.sign = e.sign
        ELSE /\ x.sign = e.sign
             /\ \/ Less(distance, half)
                \/ Same(distance, half) /\ (shift > 0 \/ IsEven(x.m))

\* every operation of the tree on finite operands, division by 0 apart,
\* gives the number nearest to the result it has without rounding
RECURSIVE RoundsEachOperation(_, _)
RoundsEachOperation(expr, store) ==
    expr.type = "BinaryExpression" =>
        /\ RoundsEachOperation(expr.left, store)
        /\ RoundsEachOperation(expr.right, store)
        /\ LET left == evaluateExpression(expr.left, store).value
               right == evaluateExpression(expr.right, store).value
               value == evaluateExpression(expr, store).value
           IN  (/\ typeof(left) = "number" /\ IsFinite(left)
                /\ typeof(right) = "number" /\ IsFinite(right)
                /\ ~(expr.operator = Str(<<"/">>) /\ right = Num(0))) =>
                   /\ typeof(value) = "number"
                   /\ IsFinite(value)
                   /\ IsNearest(value, ExactResult(expr.operator, left, right))

DigitOf(c) == CHOOSE i \in 0..9 : DigitChars[i + 1] = c

\* the natural written by decimal digits
RECURSIVE NaturalOf(_)
NaturalOf(digits) ==
    IF digits = <<>> THEN <<>>
    ELSE Add(MulSmall(NaturalOf(SubSeq(digits, 1, Len(digits) - 1)), 10),
             Limbs(DigitOf(digits[Len(digits)])))

\* the text is a decimal  -?digits(.digits)?  of at most 17 significant
\* digits, and v is the number nearest to it: reading the text gives v back
ReadsBack(text, v) ==
    LET unsigned == IF text # <<>> /\ text[1] = "-" THEN Tail(text) ELSE text
        digits == SelectSeq(unsigned, IsDigit)
        points == {i \in 1..Len(unsigned) : unsigned[i] = "."}
        fraction == IF points = {} THEN 0 ELSE Len(unsigned) - Max(points)
        n == NaturalOf(digits)
    IN  /\ digits # <<>>
        /\ Cardinality(points) <= 1
        /\ Len(digits) + Cardinality(points) = Len(unsigned)
        /\ Len(BigToChars(n)) <= 17
        /\ IsNearest(v, Exact(IF unsigned = text THEN 1 ELSE -1, n,
                              TimesPower(TimesPower(<<1>>, 2, fraction), 5, fraction)))

\* interpret() is about to execute a statement, and executes it
ExecutesStatement ==
    /\ pc = "interpret"
    /\ stmtIndex < Len(statements)
    /\ stmtIndex' = stmtIndex + 1

\* the expressions the statement evaluates
EvaluatedExpressions ==
    LET statement == statements[stmtIndex + 1]
    IN  CASE statement.type = "AssignmentStatement" -> <<statement.value>>
          [] statement.type = "PrintStatement" -> statement.expressions
          [] OTHER -> <<>>

ValueOf(expr) == evaluateExpression(expr, variables).value

\* the line a PrintStatement with one expression prints
PrintsOne ==
    /\ ExecutesPrint
    /\ Len(statements[stmtIndex + 1].expressions) = 1

ArithmeticOutput ==
    <<<<"8">>, <<"2">>, <<"1", "5">>,
      <<"1", ".", "6", "6", "6", "6", "6", "6", "6", "6", "6", "6", "6", "6", "6", "6", "6", "7">>>>

\* C15: an expression tree over integers has its arithmetic value. A tree
\* whose operations all have integer results evaluates to the integer that
\* integer arithmetic gives (2 + 3 * 4 - 1 to 13, 2 + 3 - 1 to 4) and prints
\* as its decimal digits; every operation of a tree gives the number nearest
\* to its result without rounding, so a quotient is not truncated; a printed
\* quotient reads back as the value. With a = 5 and b = 3 the four PRINT
\* statements print 8, 2, 15 and 1.6666666666666667, in that order.
C15_ArithmeticValue ==
    [][/\ ExecutesStatement =>
              \A k \in 1..Len(EvaluatedExpressions) :
                  LET expr == EvaluatedExpressions[k]
                      exact == IntegerValue(expr, variables)
                  IN  IsIntegerTree(expr, variables) =>
                          /\ RoundsEachOperation(expr, variables)
                          /\ exact.defined => ValueOf(expr) = Num(exact.n)
       /\ (PrintsOne /\ IsIntegerTree(EvaluatedExpressions[1], variables)) =>
              LET expr == EvaluatedExpressions[1]
                  exact == IntegerValue(expr, variables)
              IN  /\ Len(output') = Len(output) + 1
                  /\ IF exact.defined THEN output'[Len(output')] = IntegerText(exact.n)
                     ELSE IsFinite(ValueOf(expr)) =>
                              ReadsBack(output'[Len(output')], ValueOf(expr))
       /\ (pc = "interpret" /\ pc' = "done") =>
              /\ input = ArithmeticTest => output' = ArithmeticOutput
              /\ input = ComplexExpressionTest => output' = <<<<"1", "3">>>>
              /\ input = PrecedenceText => output' = <<<<"1", "3">>>>
              /\ input = AssociativityText => output' = <<<<"4">>>>]_vars

\* the arithmetic test has run and printed its four lines
C15_Witness ==
    /\ pc = "done"
    /\ input = ArithmeticTest
    /\ output = ArithmeticOutput


-----------------------------------------------------------------------------
(* Statement separators, expression lists and termination of the parser *)

\* the length of the longest chain  atom (op atom)*  the tokens start with
ChainLength(toks) ==
    Max({0} \cup {n \in 1..Len(toks) : IsChain(SubSeq(toks, 1, n))})

StatementsResult(ok, stmts) == [ok |-> ok, stmts |-> stmts]

\* the trees of  chain (COMMA chain)*, and the tokens left after them
RECURSIVE ChainList(_)
ChainList(toks) ==
    LET n == ChainLength(toks)
        rest == SubSeq(toks, n + 1, Len(toks))
    IN  IF n = 0 THEN [ok |-> FALSE, trees |-> <<>>, rest |-> toks]
        ELSE IF rest # <<>> /\ rest[1].type = "COMMA"
        THEN LET more == ChainList(Tail(rest))
             IN  [ok |-> more.ok,
                  trees |-> <<GrammarTree(SubSeq(toks, 1, n))>> \o more.trees,
                  rest |-> more.rest]
        ELSE [ok |-> TRUE, trees |-> <<GrammarTree(SubSeq(toks, 1, n))>>, rest |-> rest]

\* Whether the tokens are complete statements ($v = chain, PRINT chain
\* (, chain)*, or an unsupported token) with any number of EOL tokens before,
\* between and after them, and the statements they are by the grammar
RECURSIVE GrammarStatements(_)
GrammarStatements(toks) ==
    IF toks = <<>> THEN StatementsResult(TRUE, <<>>)
    ELSE IF toks[1].type = "EOL" THEN GrammarStatements(Tail(toks))
    ELSE IF toks[1].type = "UNSUPPORTED"
    THEN LET rest == GrammarStatements(Tail(toks))
         IN  StatementsResult(rest.ok, <<UnsupportedStatement(toks[1].value)>> \o rest.stmts)
    ELSE IF toks[1].type = "VARIABLE" /\ Len(toks) >= 3 /\ toks[2].type = "EQUAL"
    THEN LET n == ChainLength(SubSeq(toks, 3, Len(toks)))
             rest == GrammarStatements(SubSeq(toks, n + 3, Len(toks)))
         IN  IF n = 0 THEN StatementsResult(FALSE, <<>>)
             ELSE StatementsResult(rest.ok,
                      <<AssignmentStatement(toks[1].value, GrammarTree(SubSeq(toks, 3, n + 2)))>>
                      \o rest.stmts)
    ELSE IF toks[1].type = "PRINT"
    THEN LET list == ChainList(Tail(toks))
             rest == GrammarStatements(list.rest)
         IN  IF ~list.ok THEN StatementsResult(FALSE, <<>>)
             ELSE StatementsResult(rest.ok, <<PrintStatement(list.trees)>> \o rest.stmts)
    ELSE StatementsResult(FALSE, <<>>)

\* C21: for tokens that are complete statements with EOL tokens before,
\* between and after them, parse() returns the statements it returns for the
\* tokens without the EOL tokens, with no error; EOL tokens alone give no
\* statement.
C21_EolIgnored ==
    (Parsed /\ GrammarStatements(tokens).ok) =>
        /\ errors = <<>>
        /\ GrammarStatements(WithoutEol(tokens)).ok
        /\ statements = GrammarStatements(WithoutEol(tokens)).stmts
        /\ WithoutEol(tokens) = <<>> => statements = <<>>

\* two statements with two EOL tokens before, between and after them parsed
C21_Witness ==
    /\ Parsed
    /\ tokens = Gap(2) \o <<TokVariable(<<"a">>), TokEqual, TokInteger(2)>> \o Gap(2)
                \o <<TokPrint, TokVariable(<<"a">>), TokComma, TokInteger(2)>> \o Gap(2)
    /\ statements = <<AssignmentStatement(Str(<<"a">>), Literal(Num(2))),
                      PrintStatement(<<VarA, Literal(Num(2))>>)>>


\* parse() is at a PRINT token and emits the PrintStatement
ParsesPrint ==
    /\ pc = "parse"
    /\ currentIndex < Len(tokens)
    /\ tokens[currentIndex + 1].type = "PRINT"
    /\ Len(statements') = Len(statements) + 1

\* the COMMA tokens consumed for that statement
CommasConsumed ==
    Len(SelectSeq(SubSeq(tokens, currentIndex + 2, currentIndex'),
                  LAMBDA t : t.type = "COMMA"))

\* C22: a PrintStatement that parse() emits without reporting an error has
\* one expression more than the COMMA tokens consumed for it: its list is not
\* empty, and no COMMA goes without an expression after it.
C22_PrintListComplete ==
    [][(ParsesPrint /\ NewErrors = <<>>) =>
           Len(statements'[Len(statements')].expressions) = CommasConsumed + 1]_vars


-----------------------------------------------------------------------------
(* The variable store *)

\* interpret() is about to execute a statement that is neither an assignment
\* nor a PRINT, and executes it
ExecutesUnsupported ==
    /\ ExecutesStatement
    /\ statements[stmtIndex + 1].type \notin {"AssignmentStatement", "PrintStatement"}

\* C23: the store has no binding when the Interpreter is constructed, and it
\* changes only in the execution of an AssignmentStatement: executing a
\* PrintStatement or an unsupported statement, with the evaluation of
\* expressions that goes with it, leaves the store as it was.
C23_StoreFrame ==
    /\ []((pc = "interpret" /\ stmtIndex = 0) => DOMAIN variables = {})
    /\ [][/\ variables' # variables => ExecutesAssignment
          /\ (ExecutesPrint \/ ExecutesUnsupported) => variables' = variables]_vars

\* an assignment, a PRINT and an unsupported statement executed: the store
\* holds the one binding
C23_Witness ==
    /\ pc = "done"
    /\ statements = <<AssignmentStatement(Str(<<"a">>), Literal(Num(5))),
                      PrintStatement(<<VarA>>),
                      UnsupportedStatement(Str(<<"@", "d">>))>>
    /\ variables = [k \in {Str(<<"a">>)} |-> Num(5)]
    /\ output = <<<<"5">>>>


-----------------------------------------------------------------------------
(* Termination of the scanning and parsing loops *)

\* an iteration of the loop of lex()
LexIteration ==
    /\ pc = "lex"
    /\ position < Len(input)
    /\ <<position, tokens, errors>>' # <<position, tokens, errors>>

\* C24: every iteration of the loop of lex() increases position, in both
\* lexers, the iteration that reports an unexpected character included; so
\* lex() returns after at most as many iterations as the input has characters.
C24_LexAdvances ==
    [][LexIteration => position' > position]_vars


\* an iteration of the top-level loop of parse()
ParseIteration ==
    /\ pc = "parse"
    /\ currentIndex < Len(tokens)
    /\ <<currentIndex, statements, errors, pc>>' # <<currentIndex, statements, errors, pc>>

\* C25: every iteration of the top-level loop of parse() increases
\* currentIndex, the iteration that reports an unexpected token included; so
\* parse() returns after at most as many iterations as there are tokens.
C25_ParseAdvances ==
    [][ParseIteration => currentIndex' > currentIndex]_vars


-----------------------------------------------------------------------------
(* Variable names, rule selection and comments in the lexers *)

\* the number of letters and underscores of in from offset pos on
RECURSIVE IdentifierRun(_, _)
IdentifierRun(in, pos) ==
    IF pos < Len(in) /\ IsIdentifierChar(in[pos + 1])
    THEN 1 + IdentifierRun(in, pos + 1)
    ELSE 0

\* the lexer is at a dollar sign that a letter or an underscore follows
AtVariable ==
    /\ pc = "lex"
    /\ position + 1 < Len(input)
    /\ input[position + 1] = "$"
    /\ IsIdentifierChar(input[position + 2])

\* C26: in both lexers a dollar sign followed by letters and underscores gives
\* one VARIABLE token whose value is the maximal run of letters and underscores
\* after the dollar sign, and scanning goes on right after that run: a digit is
\* never part of the name.
C26_VariableName ==
    [][(AtVariable /\ position' # position) =>
           LET run == IdentifierRun(input, position + 1) IN
           /\ tokens' = Append(tokens,
                               Token("VARIABLE",
                                     Str(SubSeq(input, position + 2, position + 1 + run))))
           /\ position' = position + 1 + run
           /\ errors' = errors]_vars


\* the table-driven lexer is at an offset where some rule matches
TableIteration ==
    /\ pc = "lex"
    /\ lexerKind = "table"
    /\ position < Len(input)
    /\ position' # position

RestOfInput == SubSeq(input, position + 1, Len(input))

\* the length of the longest match of a rule at the offset
LongestLength ==
    LET lengths == {Match(lexerRules[i].pattern, RestOfInput).len : i \in 1..Len(lexerRules)}
    IN  CHOOSE n \in lengths : \A m \in lengths : m <= n

\* the first rule of the table with a match of that length
LongestRule ==
    LET longest == {i \in 1..Len(lexerRules) :
                       Match(lexerRules[i].pattern, RestOfInput).len = LongestLength}
    IN  lexerRules[CHOOSE i \in longest : \A j \in longest : i <= j]

\* what the application of a rule at the offset appends to the tokens
TokensOfRule(rule) ==
    LET match == Match(rule.pattern, RestOfInput) IN
    IF rule.skipToken THEN <<>>
    ELSE <<Token(rule.tokenType,
                 ApplyAction(rule.action,
                             IF rule.innerMatch THEN match.inner
                             ELSE SubSeq(RestOfInput, 1, match.len)))>>

\* C27: where some rule matches, the table-driven lexer applies the rule with
\* the longest match at the offset (the first such rule of the table), appends
\* at most the one token of that rule and advances by the length of that match.
C27_LongestMatch ==
    [][TableIteration =>
           /\ tokens' = tokens \o TokensOfRule(LongestRule)
           /\ Len(tokens') <= Len(tokens) + 1
           /\ position' = position + LongestLength]_vars


\* the lexer is at a percent sign
AtComment ==
    /\ pc = "lex"
    /\ position < Len(input)
    /\ input[position + 1] = "%"
    /\ position' # position

\* the offsets after position that hold a newline
NewlinesAhead == {i \in (position + 1)..Len(input) : input[i] = "\n"}

\* C28: in both lexers the iteration at a percent sign appends no token and
\* reports nothing, and scanning goes on right after the first newline that
\* follows (or stops, when none follows): the comment and the newline that ends
\* its line give no token, in particular no EOL.
C28_CommentConsumesNewline ==
    [][AtComment =>
           /\ tokens' = tokens
           /\ errors' = errors
           /\ IF NewlinesAhead = {}
              THEN position' >= Len(input)
              ELSE position' = CHOOSE i \in NewlinesAhead : \A j \in NewlinesAhead : i <= j]_vars


-----------------------------------------------------------------------------
(* Reads of the token array *)

\* C29: while parsing, consume() and peek() never read the token array at or
\* after its length: no read yields undefined (whose use throws a TypeError)
\* and currentIndex never exceeds the number of tokens.
C29_ReadsInBounds ==
    /\ currentIndex <= Len(tokens)
    /\ pc # "crashed"


-----------------------------------------------------------------------------
(* Failed assignments *)

\* the execution of an AssignmentStatement that reports an error
AssignmentFails ==
    /\ ExecutesAssignment
    /\ NewErrors # <<>>

\* C30: the execution of an AssignmentStatement that fails (a variable of its
\* expression is not defined, an operand is not a number, or the value is one
\* the assignment rejects) leaves the store as it was: a bound name keeps its
\* value and an unbound name stays unbound.
C30_FailedAssignmentKeepsStore ==
    [][AssignmentFails => variables' = variables]_vars

C30_Witness ==
    /\ pc = "done"
    /\ statements = <<AssignmentStatement(Str(<<"a">>), Literal(Num(5))),
                      AssignmentStatement(Str(<<"a">>), VarB)>>
    /\ variables = [k \in {Str(<<"a">>)} |-> Num(5)]
    /\ Reported(errors, "variable is not defined")
    /\ Reported(errors, "error evaluating expression")

=============================================================================
